---- MODULE Spec2Model ----
(***************************************************************************)
(* Verification model of jwreftools:                                       *)
(*   - niriss/niriss_grism_reffiles.py : dict_from_file, split_order_info  *)
(*   - nirspec/nirspec_fs_ref_tools.py : the marker-driven converters      *)
(* Text is modelled as sequences of one-character strings, dictionaries as *)
(* insertion-ordered sequences of [k, v] entries (Python 3 dict order).    *)
(***************************************************************************)
EXTENDS Integers, Sequences, FiniteSets, TLC

(***************************************************************************)
(* Bounds of the model                                                     *)
(***************************************************************************)
MaxLines == 2

MaxDefects == 2

(***************************************************************************)
(* Character classes used by the regular expressions                       *)
(***************************************************************************)
LowerSeq == << "a","b","c","d","e","f","g","h","i","j","k","l","m",
               "n","o","p","q","r","s","t","u","v","w","x","y","z" >>

UpperSeq == << "A","B","C","D","E","F","G","H","I","J","K","L","M",
               "N","O","P","Q","R","S","T","U","V","W","X","Y","Z" >>

DigitSeq == << "0","1","2","3","4","5","6","7","8","9" >>

Letter == { LowerSeq[n] : n \in 1..26 } \cup { UpperSeq[n] : n \in 1..26 }

Digit == { DigitSeq[n] : n \in 1..10 }

AlNum == Letter \cup Digit

WordChar == AlNum \cup { "_" }

Whitespace == { " ", "\t", "\n", "\r" }

SignChar == { "+", "-" }

ExpChar == { "e", "E" }

\* str.upper() on one character
Upper(c) ==
    IF \E n \in 1..26 : LowerSeq[n] = c
    THEN UpperSeq[CHOOSE n \in 1..26 : LowerSeq[n] = c]
    ELSE c

RECURSIVE UpperStr(_)
UpperStr(s) == IF s = << >> THEN << >> ELSE << Upper(Head(s)) >> \o UpperStr(Tail(s))

DigitVal(c) == (CHOOSE n \in 1..10 : DigitSeq[n] = c) - 1

(***************************************************************************)
(* String primitives                                                       *)
(***************************************************************************)
\* index of the first position >= p of s whose character is not in S
RECURSIVE SkipWhile(_, _, _)
SkipWhile(s, p, S) ==
    IF p > Len(s) \/ s[p] \notin S THEN p ELSE SkipWhile(s, p + 1, S)

\* index of the last position <= p of s whose character is not in S
RECURSIVE SkipBack(_, _, _)
SkipBack(s, p, S) ==
    IF p < 1 \/ s[p] \notin S THEN p ELSE SkipBack(s, p - 1, S)

\* str.strip()
Strip(s) == SubSeq(s, SkipWhile(s, 1, Whitespace), SkipBack(s, Len(s), Whitespace))

\* "pat in s"
IsSubstring(pat, s) ==
    \E p \in 1..(Len(s) - Len(pat) + 1) : SubSeq(s, p, p + Len(pat) - 1) = pat

\* str.split(c) for a one-character separator
RECURSIVE StrSplit(_, _)
StrSplit(s, c) ==
    IF \A p \in 1..Len(s) : s[p] # c
    THEN << s >>
    ELSE LET p == CHOOSE q \in 1..Len(s) :
                     s[q] = c /\ \A r \in 1..(q - 1) : s[r] # c
         IN  << SubSeq(s, 1, p - 1) >> \o StrSplit(SubSeq(s, p + 1, Len(s)), c)

\* str.replace(old, new), old non-empty
RECURSIVE StrReplace(_, _, _)
StrReplace(s, old, new) ==
    IF Len(s) < Len(old) THEN s
    ELSE IF SubSeq(s, 1, Len(old)) = old
         THEN new \o StrReplace(SubSeq(s, Len(old) + 1, Len(s)), old, new)
         ELSE << Head(s) >> \o StrReplace(Tail(s), old, new)

RECURSIVE ToNat(_)
ToNat(ds) ==
    IF ds = << >> THEN 0
    ELSE ToNat(SubSeq(ds, 1, Len(ds) - 1)) * 10 + DigitVal(ds[Len(ds)])

(***************************************************************************)
(* Python values: numbers (int or float, value m * 10^e), lists, 2-tuples  *)
(***************************************************************************)
NumV(kind, m, e) == [t |-> "num", kind |-> kind, m |-> m, e |-> e, items |-> << >>]

ListV(xs) == [t |-> "list", kind |-> "", m |-> 0, e |-> 0, items |-> xs]

TupleV(a, b) == [t |-> "tuple", kind |-> "", m |-> 0, e |-> 0, items |-> << a, b >>]

\* a local name that has not been assigned yet
Unbound == [t |-> "unbound", kind |-> "", m |-> 0, e |-> 0, items |-> << >>]

RECURSIVE Normalise(_, _)
Normalise(m, e) ==
    IF m = 0 THEN << 0, 0 >>
    ELSE IF m % 10 = 0 THEN Normalise(m \div 10, e + 1)
    ELSE << m, e >>

(***************************************************************************)
(* Ordered dictionaries                                                    *)
(***************************************************************************)
DictKeys(d) == [n \in 1..Len(d) |-> d[n].k]

DictHas(d, k) == \E n \in 1..Len(d) : d[n].k = k

DictGet(d, k) == d[CHOOSE n \in 1..Len(d) : d[n].k = k].v

\* DictSet with a slip: always adds a new entry
DictSetAppend(d, k, v) == Append(d, [k |-> k, v |-> v])

\* DictSet with a slip: an existing key keeps its first value
DictSetKeep(d, k, v) ==
    IF DictHas(d, k) THEN d ELSE Append(d, [k |-> k, v |-> v])

\* d[k] = v : an existing key keeps its position, a new key goes last
DictSet(d, k, v) ==
    IF DictHas(d, k)
    THEN [n \in 1..Len(d) |-> IF d[n].k = k THEN [k |-> k, v |-> v] ELSE d[n]]
    ELSE Append(d, [k |-> k, v |-> v])

\* del d[k]
DictDel(d, k) == SelectSeq(d, LAMBDA en : en.k # k)

(***************************************************************************)
(* dict_from_file: the regular expressions                                 *)
(***************************************************************************)
MaxSplit == 10

NoneV == [t |-> "none", kind |-> "", m |-> 0, e |-> 0, items |-> << >>]

NoExc == [type |-> "", text |-> "", arg |-> << >>]

\* empty = re.compile("(^\s*$)") ; empty.match(line)
EmptyMatch(line) == \A p \in 1..Len(line) : line[p] \in Whitespace

\* LettersMatch with a slip: the test is made on the stripped line
LettersMatchStripped(line) ==
    SkipWhile(line, 1, Whitespace) <= Len(line)
      /\ line[SkipWhile(line, 1, Whitespace)] \in Letter

\* letters = re.compile("(^[a-zA-Z])") ; letters.match(line)
LettersMatch(line) == Len(line) >= 1 /\ line[1] \in Letter

\* one match of token = '\s+|(?<!\d)[,](?!\d)' at position p: the position
\* after the match, or p when there is no match at p
TokenMatchEnd(s, p) ==
    IF s[p] \in Whitespace THEN SkipWhile(s, p, Whitespace)
    ELSE IF /\ s[p] = ","
            /\ (p = 1 \/ s[p - 1] \notin Digit)
            /\ (p = Len(s) \/ s[p + 1] \notin Digit)
         THEN p + 1
         ELSE p

\* re.split(token, s, maxsplit=10)
RECURSIVE ReSplitFrom(_, _, _, _)
ReSplitFrom(s, pos, start, n) ==
    IF pos > Len(s) \/ n = MaxSplit
    THEN << SubSeq(s, start, Len(s)) >>
    ELSE LET q == TokenMatchEnd(s, pos)
         IN  IF q > pos
             THEN << SubSeq(s, start, pos - 1) >> \o ReSplitFrom(s, q, q, n + 1)
             ELSE ReSplitFrom(s, pos + 1, start, n)

ReSplit(s) == ReSplitFrom(s, 1, 1, 0)

\* the pieces of
\* numbers = "(^(?:[+\-])?(?:\d*)(?:\.)?(?:\d*)?(?:[eE][+\-]?\d*$)?)"
NumParts(s) ==
    LET sgnEnd  == IF Len(s) >= 1 /\ s[1] \in SignChar THEN 2 ELSE 1
        intEnd  == SkipWhile(s, sgnEnd, Digit)
        hasDot  == intEnd <= Len(s) /\ s[intEnd] = "."
        dotEnd  == IF hasDot THEN intEnd + 1 ELSE intEnd
        fracEnd == SkipWhile(s, dotEnd, Digit)
        hasExp  == fracEnd <= Len(s) /\ s[fracEnd] \in ExpChar
        hasESgn == hasExp /\ fracEnd + 1 <= Len(s) /\ s[fracEnd + 1] \in SignChar
        eDigBeg == IF hasESgn THEN fracEnd + 2 ELSE fracEnd + 1
        expEnd  == IF hasExp THEN SkipWhile(s, eDigBeg, Digit) ELSE fracEnd
    IN  [ neg     |-> Len(s) >= 1 /\ s[1] = "-",
          hasSgn  |-> sgnEnd = 2,
          int     |-> SubSeq(s, sgnEnd, intEnd - 1),
          hasDot  |-> hasDot,
          frac    |-> SubSeq(s, dotEnd, fracEnd - 1),
          hasExp  |-> hasExp,
          expNeg  |-> hasESgn /\ s[fracEnd + 1] = "-",
          hasESgn |-> hasESgn,
          exp     |-> IF hasExp THEN SubSeq(s, eDigBeg, expEnd - 1) ELSE << >>,
          end     |-> expEnd ]

\* NumbersFullmatch with a slip: match instead of fullmatch, and every
\* part of the pattern is optional
NumbersMatch(s) == NumParts(s).end <= Len(s) + 1

\* numbers.fullmatch(s)
NumbersFullmatch(s) == NumParts(s).end = Len(s) + 1

\* eval(s) for a string that the numeric pattern accepts (Python 3)
Eval(s) ==
    LET FromParts(p) ==
          LET mant   == p.int \o p.frac
              isInt  == ~p.hasDot /\ ~p.hasExp
              name   == mant = << >> /\ ~p.hasDot /\ p.hasExp
              badInt == \/ p.int = << >>
                        \/ (Len(p.int) > 1 /\ p.int[1] = "0"
                              /\ \E n \in 1..Len(p.int) : p.int[n] # "0")
              badFlt == mant = << >> \/ (p.hasExp /\ p.exp = << >>)
              ev     == (IF p.expNeg THEN 0 - ToNat(p.exp) ELSE ToNat(p.exp))
                          - Len(p.frac)
              nm     == Normalise(ToNat(mant), ev)
              val    == NumV(IF isInt THEN "int" ELSE "float",
                             IF p.neg THEN 0 - nm[1] ELSE nm[1], nm[2])
          IN  IF name
              THEN IF p.hasESgn /\ p.exp = << >>
                   THEN [exc |-> "SyntaxError", val |-> NoneV]
                   ELSE [exc |-> "NameError", val |-> NoneV]
              ELSE IF (isInt /\ badInt) \/ (~isInt /\ badFlt)
                   THEN [exc |-> "SyntaxError", val |-> NoneV]
                   ELSE [exc |-> "", val |-> val]
    IN  FromParts(NumParts(s))

\* Python's == on two numbers
NumEq(a, b) == a.t = "num" /\ b.t = "num" /\ a.m = b.m /\ a.e = b.e

(***************************************************************************)
(* dict_from_file: one pass of the loop body                               *)
(***************************************************************************)
kFILTER == << "F","I","L","T","E","R" >>

kSENS == << "S","E","N","S" >>

\* EvalVals with a slip: a token that fails the pattern is skipped
RECURSIVE EvalValsSkip(_, _, _, _)
EvalValsSkip(key, vals, vallist, ev) ==
    IF vals = << >>
    THEN [exc |-> NoExc, vallist |-> vallist, evald |-> ev]
    ELSE LET v == Head(vals)
         IN  IF NumbersFullmatch(v)
             THEN LET r == Eval(v)
                  IN  IF r.exc # ""
                      THEN [exc |-> [type |-> r.exc, text |-> "eval", arg |-> v],
                            vallist |-> vallist, evald |-> Append(ev, v)]
                      ELSE EvalValsSkip(key, Tail(vals), Append(vallist, r.val),
                                        Append(ev, v))
             ELSE EvalValsSkip(key, Tail(vals), vallist, ev)

\* for v in vals: vallist.append(eval(v)) or raise
RECURSIVE EvalVals(_, _, _, _)
EvalVals(key, vals, vallist, ev) ==
    IF vals = << >>
    THEN [exc |-> NoExc, vallist |-> vallist, evald |-> ev]
    ELSE LET v == Head(vals)
         IN  IF NumbersFullmatch(v)
             THEN LET r == Eval(v)
                  IN  IF r.exc # ""
                      THEN [exc |-> [type |-> r.exc, text |-> "eval", arg |-> v],
                            vallist |-> vallist, evald |-> Append(ev, v)]
                      ELSE EvalVals(key, Tail(vals), Append(vallist, r.val),
                                    Append(ev, v))
             ELSE [exc |-> [type |-> "ValueError", text |-> "Unexpected value for",
                            arg |-> key],
                   vallist |-> vallist, evald |-> ev]

\* the body of "for line in lines" up to the "if key:" test
ParseLine(line) ==
    LET skip == [hasKey |-> FALSE, key |-> << >>, value |-> NoneV,
                 vallist |-> << >>, exc |-> NoExc, evald |-> << >>]
        One(key, v, r) ==
            [hasKey |-> TRUE, key |-> key, value |-> r.val, vallist |-> << >>,
             exc |-> IF r.exc = "" THEN NoExc
                     ELSE [type |-> r.exc, text |-> "eval", arg |-> v],
             evald |-> << v >>]
        Many(key, r) ==
            [hasKey |-> TRUE, key |-> key, value |-> NoneV,
             vallist |-> r.vallist, exc |-> r.exc, evald |-> r.evald]
        FromPair(pair) ==
            IF Len(pair) = 2
            THEN IF NumbersFullmatch(pair[2])
                 THEN One(pair[1], pair[2], Eval(pair[2]))
                 ELSE [hasKey |-> TRUE, key |-> pair[1], value |-> NoneV,
                       vallist |-> << >>, exc |-> NoExc, evald |-> << >>]
            ELSE Many(pair[1], EvalVals(pair[1], Tail(pair), << >>, << >>))
    IN  IF EmptyMatch(line) \/ ~LettersMatch(line) THEN skip
        ELSE FromPair(ReSplit(Strip(line)))

\* Excluded with a slip: the sensitivity fields are kept
ExcludedFilterOnly(key) == IsSubstring(kFILTER, key)

\* the "if key:" block: the value stored for the line, if any
Excluded(key) == IsSubstring(kFILTER, key) \/ IsSubstring(kSENS, key)

\* Stores with a slip: a field without a number is not recorded
StoresValued(p) ==
    /\ p.hasKey /\ p.key # << >> /\ ~Excluded(p.key)
    /\ (p.value # NoneV \/ p.vallist # << >>)

Stores(p) == p.hasKey /\ p.key # << >> /\ ~Excluded(p.key)

\* StoredValue with a slip: the value is stored also when it is None
StoredValueAlways(p) == p.value

StoredValue(p) == IF p.value = NoneV THEN ListV(p.vallist) ELSE p.value

(***************************************************************************)
(* split_order_info                                                        *)
(***************************************************************************)
\* token = re.compile('^[a-zA-Z]*_[a-zA-Z0-9]{1}_(?:\w)') ; token.match(key)
TokenMatch(key) ==
    LET p == SkipWhile(key, 1, Letter)
    IN  /\ p + 3 <= Len(key)
        /\ key[p] = "_"
        /\ key[p + 1] \in AlNum
        /\ key[p + 2] = "_"
        /\ key[p + 3] \in WordChar

\* rangekey = re.compile('^[a-zA-Z]*_[0-1]{1,1}$') ; rangekey.match(k)
RangekeyMatch(k) ==
    LET p == SkipWhile(k, 1, Letter)
    IN  /\ p + 1 <= Len(k)
        /\ k[p] = "_"
        /\ k[p + 1] \in { "0", "1" }
        /\ \/ p + 1 = Len(k)
           \/ (p + 2 = Len(k) /\ k[p + 2] = "\n")

\* b = key.split("_")[1].upper()
BeamOf(key) == UpperStr(StrSplit(key, "_")[2])

\* newkey = key.replace("_{}".format(b), "")
NewKey(key) == StrReplace(key, << "_" >> \o BeamOf(key), << >>)

\* the prefetch loop: "for key in keydict"
RECURSIVE Prefetch(_, _, _)
Prefetch(keydict, n, rd) ==
    IF n > Len(keydict) THEN rd
    ELSE LET key == keydict[n].k
         IN  IF TokenMatch(key)
             THEN LET b   == BeamOf(key)
                      rd1 == IF DictHas(rd, b) THEN rd ELSE DictSet(rd, b, << >>)
                      d   == DictSet(DictGet(rd1, b), NewKey(key), keydict[n].v)
                  IN  Prefetch(keydict, n + 1, DictSet(rd1, b, d))
             ELSE Prefetch(keydict, n + 1, rd)

\* "for mk in mlist": assign zero / one from the suffix digit
RECURSIVE MkLoop(_, _, _)
MkLoop(mlist, d, st) ==
    IF mlist = << >> THEN st
    ELSE LET mk   == Head(mlist)
             last == << mk[Len(mk)] >>
             r    == Eval(last)
         IN  IF r.exc # ""
             THEN [st EXCEPT !.exc = [type |-> r.exc, text |-> "eval", arg |-> last],
                             !.evald = Append(@, last)]
             ELSE IF NumEq(r.val, NumV("int", 0, 0))
             THEN MkLoop(Tail(mlist), d,
                         [st EXCEPT !.zero = DictGet(d, mk), !.evald = Append(@, last)])
             ELSE IF NumEq(r.val, NumV("int", 1, 0))
             THEN MkLoop(Tail(mlist), d,
                         [st EXCEPT !.one = DictGet(d, mk),
                                    !.evald = Append(Append(@, last), last)])
             ELSE [st EXCEPT !.exc = [type |-> "ValueError",
                                      text |-> "Unexpected range variable",
                                      arg |-> mk],
                             !.evald = Append(Append(@, last), last)]

\* "for k in rkeys": build odict
RECURSIVE RkeysLoop(_, _, _, _)
RkeysLoop(ks, rkeys, d, st) ==
    IF ks = << >> THEN st
    ELSE LET k     == Head(ks)
             mlist == SelectSeq(rkeys, LAMBDA m : IsSubstring(StrSplit(k, "_")[1], m))
             root  == StrSplit(mlist[1], "_")[1]
         IN  IF DictHas(st.odict, root)
             THEN RkeysLoop(Tail(ks), rkeys, d, st)
             ELSE LET Pair(s2) ==
                        IF s2.exc # NoExc THEN s2
                        ELSE IF s2.zero = Unbound
                        THEN [s2 EXCEPT !.exc = [type |-> "UnboundLocalError",
                                                 text |-> "zero", arg |-> root]]
                        ELSE IF s2.one = Unbound
                        THEN [s2 EXCEPT !.exc = [type |-> "UnboundLocalError",
                                                 text |-> "one", arg |-> root]]
                        ELSE RkeysLoop(Tail(ks), rkeys, d,
                                       [s2 EXCEPT !.odict =
                                            DictSet(@, root, TupleV(s2.zero, s2.one))])
                  IN  Pair(MkLoop(mlist, d, st))

\* d.update(odict)
RECURSIVE DictUpdate(_, _)
DictUpdate(d, o) ==
    IF o = << >> THEN d ELSE DictUpdate(DictSet(d, o[1].k, o[1].v), Tail(o))

\* for k in rkeys: del d[k]
RECURSIVE DictDelAll(_, _)
DictDelAll(d, ks) ==
    IF ks = << >> THEN d ELSE DictDelAll(DictDel(d, Head(ks)), Tail(ks))

\* "for b, d in rdict.items()": the range-variable loop
RECURSIVE RangeLoop(_, _, _)
RangeLoop(rd, n, st) ==
    IF n > Len(rd) THEN [rdict |-> rd, st |-> st]
    ELSE LET d     == rd[n].v
             rkeys == SelectSeq(DictKeys(d), RangekeyMatch)
             Merge(s1) ==
                 IF s1.exc # NoExc THEN [rdict |-> rd, st |-> s1]
                 ELSE RangeLoop([rd EXCEPT ![n].v =
                                     DictDelAll(DictUpdate(d, s1.odict), rkeys)],
                                n + 1, s1)
         IN  Merge(RkeysLoop(rkeys, rkeys, d, [st EXCEPT !.odict = << >>]))

split_order_info(keydict) ==
    LET st0 == [zero |-> Unbound, one |-> Unbound, odict |-> << >>,
                exc |-> NoExc, evald |-> << >>]
        Result(r) == [exc |-> r.st.exc, rdict |-> r.rdict, evald |-> r.st.evald]
    IN  Result(RangeLoop(Prefetch(keydict, 1, << >>), 1, st0))

(***************************************************************************)
(* Input files of dict_from_file: sequences of at most MaxLines lines      *)
(* taken from a corpus of configuration-file lines                         *)
(***************************************************************************)
\* the example line of the grouping contract
lnDispxA == << "D","I","S","P","X","_","A"," ","1"," ","2"," ","3"," ","4"," ","5"," ","6","\n" >>

lnMmagA0 == << "M","M","A","G","_","E","X","T","R","A","C","T","_","A","_","0"," ","5",".","0","\n" >>

lnMmagA1 == << "M","M","A","G","_","E","X","T","R","A","C","T","_","A","_","1"," ","1","0",".","0","\n" >>

lnDispxA0 == << "D","I","S","P","X","_","A","_","0"," ","5",".","0","\n" >>

lnDispxA1 == << "D","I","S","P","X","_","A","_","1"," ","1","0",".","0","\n" >>

\* a range suffix other than 0 or 1
lnDispxA2 == << "D","I","S","P","X","_","A","_","2"," ","1","\n" >>

\* the same field name again, with a list value
lnDispxA0List == << "D","I","S","P","X","_","A","_","0"," ","2"," ","3","\n" >>

\* a lower-case tag
lnDispxLower == << "D","I","S","P","X","_","a","_","0"," ","1","\n" >>

lnFilter == << "F","I","L","T","E","R"," ","1","\n" >>

lnSens == << "S","E","N","S","I","T","I","V","I","T","Y","_","A"," ","s",".","f","i","t","s","\n" >>

\* an untagged field
lnFwcpos == << "F","W","C","P","O","S","_","R","E","F"," ","3","5","4",".","2","\n" >>

\* a field name without a value
lnKeyOnly == << "F","W","C","P","O","S","_","R","E","F","\n" >>

\* one value token, not numeric
lnXoffBad == << "X","O","F","F","_","A"," ","x","\n" >>

\* two value tokens, one not numeric
lnXoffBad2 == << "X","O","F","F","_","A"," ","0"," ","x","\n" >>

\* a comma between digits does not split
lnDigitComma == << "Y","O","F","F","_","A"," ","1",",","2","\n" >>

\* comma then blank: an empty token
lnCommaSpace == << "Y","O","F","F","_","A",","," ","1","\n" >>

\* accepted by the pattern, rejected by eval
lnBadExp == << "Y","O","F","F","_","A"," ","1","e","\n" >>

lnBlank == << "\n" >>

lnSpaces == << " ","\t","\n" >>

lnComment == << "#"," ","D","I","S","P","X","_","A","_","0"," ","1","\n" >>

\* leading whitespace
lnIndented == << " ","D","I","S","P","X","_","A","_","0"," ","1","\n" >>

lnDigitFirst == << "9","X"," ","1","\n" >>

Corpus ==
    { lnDispxA, lnMmagA0, lnMmagA1, lnDispxA0,
      lnDispxA1, lnDispxA2, lnDispxA0List, lnDispxLower,
      lnFilter, lnSens, lnFwcpos, lnKeyOnly,
      lnXoffBad, lnXoffBad2, lnDigitComma, lnCommaSpace,
      lnBadExp, lnBlank, lnSpaces, lnComment,
      lnIndented, lnDigitFirst }

Files == UNION { [1..n -> Corpus] : n \in 0..MaxLines }

(***************************************************************************)
(* State                                                                   *)
(***************************************************************************)
VARIABLES
    lines,      \* dict_from_file: the lines read from the file
    lineno,     \* index of the next line of the "for line in lines" loop
    content,    \* the local dictionary being filled
    ret,        \* what dict_from_file returned: [ok, d]
    pc,         \* "loop", "returned", "raised", "grouped", "group_raised"
    exc,        \* the exception that ended the call, or NoExc
    evald,      \* every string handed to eval so far, in order
    rdict,      \* what split_order_info returned
    conv,       \* NIRSPEC: the converter that was called
    files,      \* the vendor files handed to it
    fidx,       \* index of the file being read
    step,       \* position in the converter's program
    loc,        \* local variables of disperser2asdf
    out,        \* the output file: [written, tree]
    cpc,        \* "idle", "run", "raised", "done"
    cexc,       \* the exception that ended the converter, or NoCExc
    polys,      \* the polynomial surfaces built so far, by Python name
    built,      \* the models composed so far (tree[...]['model'])
    opened,     \* the input files that are open
    driver,     \* batch driver: "build5" or "build6"
    dstep,      \* position in the driver's statement list
    attempted,  \* the conversions called so far, in order
    printed,    \* the diagnostics printed so far, in order
    dpc,        \* "idle", "run", "except", "raised", "done"
    dexc,       \* the exception in flight or that ended the driver
    fpa,        \* fpa2asdf: the ten values read from the FPA file
    tree,       \* fpa2asdf: tree['NRS1'], tree['NRS2'] as written
    probe,      \* a coordinate sent through a written transform and back
    fpc,        \* "idle", "read", "written", "forward", "back"
    orders,     \* create_grism_config: sorted(beamdict.keys())
    oidx,       \* index of the next order of the "for order in orders" loop
    ref,        \* the lists being built and the reference file as saved
    gpc,        \* "idle", "conf", "loop", "written", "validated", "raised"
    gexc,       \* the exception that ended create_grism_config, or NoExc
    fn,         \* the helper function being called, or ""
    args,       \* the arguments of the call
    res         \* what the call returned or raised, or NoRes

parseVars == << lines, lineno, content, ret, pc, exc, evald, rdict >>

convVars == << conv, files, fidx, step, loc, out, cpc, cexc, polys, built, opened >>

driverVars == << driver, dstep, attempted, printed, dpc, dexc >>

fpaVars == << fpa, tree, probe, fpc >>

grismVars == << orders, oidx, ref, gpc, gexc >>

callVars == << fn, args, res >>

vars == << parseVars, convVars, driverVars, fpaVars, grismVars, callVars >>

\* what the parser leaves alone
notParse == << convVars, driverVars, fpaVars, grismVars, callVars >>

\* what a converter leaves alone
notConv == << parseVars, driverVars, fpaVars, grismVars, callVars >>

\* what a batch driver leaves alone
notDriver == << parseVars, convVars, fpaVars, grismVars, callVars >>

\* what the detector transforms leave alone
notFpa == << parseVars, convVars, driverVars, grismVars, callVars >>

\* what the loop of create_grism_config leaves alone
notGrism == << parseVars, convVars, driverVars, fpaVars, callVars >>

\* what a call of a helper function leaves alone
notCall == << parseVars, convVars, driverVars, fpaVars, grismVars >>

NoRet == [ok |-> FALSE, d |-> << >>]

ParseInit ==
    /\ lines \in Files
    /\ lineno = 1
    /\ content = << >>
    /\ ret = NoRet
    /\ pc = "loop"
    /\ exc = NoExc
    /\ evald = << >>
    /\ rdict = << >>

\* one iteration of "for line in lines" in dict_from_file
ReadLine ==
    /\ pc = "loop"
    /\ lineno <= Len(lines)
    /\ \E p \in { ParseLine(lines[lineno]) } :
           /\ evald' = evald \o p.evald
           /\ IF p.exc # NoExc
              THEN /\ pc' = "raised"
                   /\ exc' = p.exc
                   /\ UNCHANGED << content, lineno >>
              ELSE /\ content' = IF Stores(p)
                                 THEN DictSet(content, p.key, StoredValue(p))
                                 ELSE content
                   /\ lineno' = lineno + 1
                   /\ UNCHANGED << pc, exc >>
    /\ UNCHANGED << lines, ret, rdict >>
    /\ UNCHANGED notParse

\* "return content"
Return ==
    /\ pc = "loop"
    /\ lineno > Len(lines)
    /\ ret' = [ok |-> TRUE, d |-> content]
    /\ pc' = "returned"
    /\ UNCHANGED << lines, lineno, content, exc, evald, rdict >>
    /\ UNCHANGED notParse

\* SplitOrderInfo with a slip: the merged keys are deleted from the input
SplitOrderInfoInPlace ==
    /\ pc = "returned"
    /\ \E r \in { split_order_info(ret.d) } :
           /\ evald' = evald \o r.evald
           /\ exc' = r.exc
           /\ IF r.exc = NoExc
              THEN pc' = "grouped" /\ rdict' = r.rdict
              ELSE pc' = "group_raised" /\ UNCHANGED rdict
    /\ ret' = [ret EXCEPT !.d = SelectSeq(@, LAMBDA en :
                    ~(TokenMatch(en.k) /\ RangekeyMatch(NewKey(en.k))))]
    /\ UNCHANGED << lines, lineno, content >>
    /\ UNCHANGED notParse

\* beamdict = split_order_info(conf)
SplitOrderInfo ==
    /\ pc = "returned"
    /\ \E r \in { split_order_info(ret.d) } :
           /\ evald' = evald \o r.evald
           /\ exc' = r.exc
           /\ IF r.exc = NoExc
              THEN pc' = "grouped" /\ rdict' = r.rdict
              ELSE pc' = "group_raised" /\ UNCHANGED rdict
    /\ UNCHANGED << lines, lineno, content, ret >>
    /\ UNCHANGED notParse


(***************************************************************************)
(* NIRSPEC converters driven by marker lines.  A vendor file is a map from *)
(* marker to the status of its section: "absent", "ok" (the text after the *)
(* marker converts), "bad" (it does not convert).  '*TYPE' carries the     *)
(* disperser type instead; entries without '*' describe the file names    *)
(* and the tilt files handed to disperser2asdf.                            *)
(***************************************************************************)
MaxFiles == 2

Ix(m) == [op |-> "index", m |-> m, as |-> ""]

Cv(m) == [op |-> "conv", m |-> m, as |-> ""]

Op(o) == [op |-> o, m |-> "", as |-> ""]

Poly(m) == << Ix(m), Cv(m) >>

\* name = models.Polynomial2D(degree, **coeffs_from_pcf(degree, <block m>))
PolyAs(m, name) == << Ix(m), [op |-> "conv", m |-> m, as |-> name] >>

xFwd == "*xForwardCoefficients 21 2"

yFwd == "*yForwardCoefficients 21 2"

xBwd == "*xBackwardCoefficients 21 2"

yBwd == "*yBackwardCoefficients 21 2"

pcf_forward ==
    << Op("with"), Ix("*Factor 2"), Cv("*Factor 2"), Ix("*Rotation"), Cv("*Rotation"),
       Ix("*InputRotationCentre 2"), Cv("*InputRotationCentre 2"),
       Ix("*OutputRotationCentre 2"), Cv("*OutputRotationCentre 2") >>
      \o Poly("*FitOrder")
      \o PolyAs(xFwd, "x_poly_forward") \o PolyAs(yFwd, "y_poly_forward")
      \o PolyAs(xBwd, "x_poly_backward") \o PolyAs(yBwd, "y_poly_backward")
      \o << Op("link"), Op("model") >>

linear_from_pcf_det2sky ==
    << Op("with"), Ix("*Factor 2"), Ix("*Rotation"), Cv("*Rotation"),
       Ix("*InputRotationCentre 2"), Ix("*OutputRotationCentre 2"),
       Cv("*InputRotationCentre 2"), Cv("*OutputRotationCentre 2"),
       Cv("*Factor 2") >>

pcf2asdf ==
    linear_from_pcf_det2sky \o << Op("with") >> \o Poly("*FitOrder")
      \o PolyAs(xFwd, "x_poly_backward") \o PolyAs(yFwd, "y_poly_backward")
      \o PolyAs(xBwd, "x_poly_forward") \o PolyAs(yBwd, "y_poly_forward")
      \o << Op("link"), Op("model") >>

\* the surfaces of fore2asdf are the chromatic sums model_x_forward, ... built
\* on the polynomials of the same names; model_x.inverse = model_x_backward
fore2asdf ==
    << Op("with") >> \o linear_from_pcf_det2sky \o Poly("*FitOrder")
      \o PolyAs(xFwd, "x_poly_backward") \o PolyAs(yFwd, "y_poly_backward")
      \o PolyAs(xBwd, "x_poly_forward") \o PolyAs(yBwd, "y_poly_forward")
      \o << Op("link"), Op("model") >>

ote2asdf ==
    << Op("with"), Ix("*Factor 2 1"), Ix("*Rotation"), Cv("*Rotation"),
       Ix("*InputRotationCentre 2 1"), Ix("*OutputRotationCentre 2 1"),
       Cv("*InputRotationCentre 2 1"), Cv("*OutputRotationCentre 2 1"),
       Cv("*Factor 2 1") >>
      \o Poly("*FitOrder")
      \o PolyAs(xBwd, "x_poly_forward") \o PolyAs(xFwd, "x_poly_backward")
      \o PolyAs(yBwd, "y_poly_forward") \o PolyAs(yFwd, "y_poly_backward")
      \o << Op("link"), Op("model") >>

fpa2asdf ==
    << Op("with") >> \o Poly("*SCA491_PitchX") \o Poly("*SCA491_PitchY") \o Poly("*SCA491_RotAngle")
      \o Poly("*SCA491_PosX") \o Poly("*SCA491_PosY")
      \o Poly("*SCA492_PitchX") \o Poly("*SCA492_PitchY") \o Poly("*SCA492_RotAngle")
      \o Poly("*SCA492_PosX") \o Poly("*SCA492_PosY")

\* the body of "for fifu in ifupost_files"
ifupost2asdf ==
    << Op("with"), Ix("*Factor 2"), Ix("*Rotation"), Cv("*Rotation"),
       Ix("*InputRotationCentre 2"), Ix("*OutputRotationCentre 2"),
       Cv("*InputRotationCentre 2"), Cv("*OutputRotationCentre 2"),
       Cv("*Factor 2") >>
      \o Poly("*FitOrder")
      \o PolyAs(xFwd, "x_poly_forward") \o PolyAs(yFwd, "y_poly_forward")
      \o PolyAs(xBwd, "x_poly_backward") \o PolyAs(yBwd, "y_poly_backward")
      \o << Op("model") >>

disperser2asdf(dtype) ==
    << Op("disperser"), Op("with"), Op("type"), Op("dict"), Op("gratingname") >>
      \o Poly("*THETAZ") \o Poly("*THETAX") \o Poly("*THETAY") \o Poly("*TILTY")
      \o << Op("tiltx") >>
      \o (IF dtype = "gratingdata"
          THEN Poly("*GROOVEDENSITY")
          ELSE IF dtype = "prismdata"
          THEN Poly("*ANGLE") \o Poly("*TREF") \o Poly("*PREF")
                 \o << Ix("*COEFFORMULA"), Op("coefformula"),
                       Ix("*THERMALCOEF"), Ix("*WBOUND"), Op("wbound") >>
          ELSE << >>)
      \o << Op("assert_tilty"), Op("assert_tiltx"),
            Op("disperser_tilt_y"), Op("disperser_tilt_x"), Op("gwa") >>

\* f[n] ; header = f[n].header ; header[key]
Ext(n) == [op |-> "ext", m |-> "HDU " \o ToString(n), as |-> ""]

Hd(n, key) == [op |-> "header", m |-> key \o " " \o ToString(n), as |-> ""]

\* the body of "for i in range(1, 5)" in msa2asdf
RECURSIVE Quadrants(_)
Quadrants(i) ==
    IF i > 4 THEN << >>
    ELSE << Ext(i), Hd(i, "QUADXREF"), Hd(i, "QUADYREF"), Hd(i, "QUADROT") >>
           \o Quadrants(i + 1)

msa2asdf ==
    << Op("fits_open"), Ext(5), Hd(5, "SLITXREF"), Hd(5, "SLITYREF"), Hd(5, "SLITROT") >>
      \o Quadrants(1) \o << Op("fits_close") >>

ifu_slicer2asdf ==
    << Op("fits_open"), Ext(1), Hd(1, "XREF"), Hd(1, "YREF"), Hd(1, "ROT"),
       Op("fits_close") >>

FitsConverters == { "msa2asdf", "ifu_slicer2asdf" }

Converters ==
    { "pcf_forward", "pcf2asdf", "fore2asdf", "ote2asdf", "fpa2asdf",
      "disperser2asdf", "ifupost2asdf", "msa2asdf", "ifu_slicer2asdf" }

Program(c, dtype) ==
    CASE c = "pcf_forward"    -> pcf_forward
      [] c = "pcf2asdf"       -> pcf2asdf
      [] c = "fore2asdf"      -> fore2asdf
      [] c = "ote2asdf"       -> ote2asdf
      [] c = "fpa2asdf"       -> fpa2asdf
      [] c = "ifupost2asdf"   -> ifupost2asdf
      [] c = "msa2asdf"       -> msa2asdf
      [] c = "ifu_slicer2asdf" -> ifu_slicer2asdf
      [] c = "disperser2asdf" -> disperser2asdf(dtype)

FileNameEntries == { "disfile", "tiltyfile name", "tiltxfile name",
                     "tiltyfile", "tiltxfile" }

\* everything a converter may look at in its input
ProgramEntries(prog) == { prog[n].m : n \in 1..Len(prog) } \ { "" }

Entries(c) ==
    IF c = "disperser2asdf"
    THEN { "*TYPE", "*GRATINGNAME", "*TILTX" } \cup FileNameEntries
           \cup ProgramEntries(disperser2asdf("gratingdata"))
           \cup ProgramEntries(disperser2asdf("prismdata"))
    ELSE IF c \in FitsConverters
    THEN { "fitsfile" } \cup ProgramEntries(Program(c, ""))
    ELSE ProgramEntries(Program(c, ""))

\* the extensions and header keywords of the FITS inputs
FitsEntries == ProgramEntries(msa2asdf) \cup ProgramEntries(ifu_slicer2asdf)

\* what can be wrong with an entry
Unsound(m) ==
    IF m = "*TYPE" THEN { "absent", "other" }
    ELSE IF m = "*GRATINGNAME" \/ m \in FitsEntries THEN { "absent" }
    ELSE IF m \in FileNameEntries \/ m = "fitsfile" THEN { "bad" }
    ELSE { "absent", "bad" }

Sound(m) == IF m = "*TYPE" THEN { "gratingdata", "prismdata" } ELSE { "ok" }

RECURSIVE SubsetsUpTo(_, _)
SubsetsUpTo(S, k) ==
    IF k = 0 THEN { {} }
    ELSE LET prev == SubsetsUpTo(S, k - 1)
         IN  prev \cup { D \cup { m } : D \in prev, m \in S }

\* the ways in which the entries of D can all be defective
RECURSIVE Damage(_)
Damage(D) ==
    IF D = {} THEN { << >> }
    ELSE LET m == CHOOSE x \in D : TRUE
         IN  { (m :> u) @@ g : u \in Unsound(m), g \in Damage(D \ { m }) }

\* the vendor files of disperser type ty with exactly the entries D defective
FilesWith(c, D, ty) ==
    { [m \in Entries(c) |-> IF m \in D THEN bad[m]
                            ELSE IF m = "*TYPE" THEN ty ELSE "ok"] :
        bad \in Damage(D) }

Defects(f) == { m \in DOMAIN f : f[m] \notin Sound(m) }

\* the vendor files with at most k defective entries
VendorFiles(c, k) ==
    UNION { FilesWith(c, D, ty) :
              D \in SubsetsUpTo(Entries(c), k),
              ty \in IF c = "disperser2asdf" THEN Sound("*TYPE") ELSE { "ok" } }

\* lists of n vendor files with at most k defective entries, all of them in
\* one file: the loop ends at the first defective file and reads no other
RECURSIVE FileLists(_, _, _)
FileLists(c, n, k) ==
    IF n = 0 THEN { << >> }
    ELSE UNION { { << f >> \o fs :
                     fs \in FileLists(c, n - 1, IF Defects(f) = {} THEN k ELSE 0) } :
                   f \in VendorFiles(c, k) }

\* the input of a call: one file, or the list of files of ifupost2asdf,
\* with at most MaxDefects defective entries
Inputs(c) ==
    IF c = "ifupost2asdf"
    THEN UNION { FileLists(c, n, MaxDefects) : n \in 0..MaxFiles }
    ELSE FileLists(c, 1, MaxDefects)

(***************************************************************************)
(* The converters as state machines                                        *)
(***************************************************************************)
NoCExc == [type |-> "", msg |-> "", marker |-> ""]

NoLoc == [dtype |-> "", d |-> "unbound", grating_name |-> "", tilt_x |-> "unset",
          tiltyd |-> "unset", tiltxd |-> "unset",
          gwa_tiltx |-> "unset", gwa_tilty |-> "unset"]

NoOut == [written |-> FALSE, tree |-> NoLoc, model |-> << >>]

PolyNames == { "x_poly_forward", "y_poly_forward", "x_poly_backward", "y_poly_backward" }

\* a surface: the coefficient block it was built from, and the name of the
\* surface assigned to its .inverse
NoPoly == [block |-> "", inverse |-> ""]

NoPolys == [n \in PolyNames |-> NoPoly]

ParseIdle ==
    /\ lines = << >>
    /\ lineno = 1
    /\ content = << >>
    /\ ret = NoRet
    /\ pc = "idle"
    /\ exc = NoExc
    /\ evald = << >>
    /\ rdict = << >>

ConvIdle ==
    /\ conv = ""
    /\ files = << >>
    /\ fidx = 1
    /\ step = 1
    /\ loc = NoLoc
    /\ out = NoOut
    /\ cpc = "idle"
    /\ cexc = NoCExc
    /\ polys = NoPolys
    /\ built = << >>
    /\ opened = {}

ConvInit ==
    /\ conv \in Converters
    /\ files \in Inputs(conv)
    /\ fidx = 1
    /\ step = 1
    /\ loc = NoLoc
    /\ out = NoOut
    /\ cpc = "run"
    /\ cexc = NoCExc
    /\ polys = NoPolys
    /\ built = << >>
    /\ opened = {}

Prog == Program(conv, loc.dtype)

Cur == files[fidx]

\* the converter is about to execute the step "op"
At(op) ==
    /\ cpc = "run"
    /\ fidx <= Len(files)
    /\ step <= Len(Prog)
    /\ Prog[step].op = op

Raise(type, msg, marker) ==
    /\ cpc' = "raised"
    /\ cexc' = [type |-> type, msg |-> msg, marker |-> marker]
    /\ UNCHANGED << conv, files, fidx, step, loc, out, polys, built, opened >>

Goto(newloc) ==
    /\ step' = step + 1
    /\ loc' = newloc
    /\ UNCHANGED << conv, files, fidx, out, cpc, cexc, polys, built, opened >>

\* the next statement, with the surfaces and the models as given
GotoWith(newpolys, newbuilt) ==
    /\ step' = step + 1
    /\ polys' = newpolys
    /\ built' = newbuilt
    /\ UNCHANGED << conv, files, fidx, loc, out, cpc, cexc, opened >>

\* Index with a slip: a marker that is not found is not noticed
IndexUnchecked ==
    /\ At("index")
    /\ Goto(loc)
    /\ UNCHANGED notConv

\* ind = lines.index(marker)
Index ==
    /\ At("index")
    /\ IF Cur[Prog[step].m] = "absent"
       THEN Raise("ValueError", "is not in list", Prog[step].m)
       ELSE Goto(loc)
    /\ UNCHANGED notConv

\* float(...), int(...), np.array(..., dtype=float), coeffs_from_pcf(...)
\* on the text that follows a marker
Convert ==
    /\ At("conv")
    /\ IF Cur[Prog[step].m] = "bad"
       THEN Raise("ValueError", "could not convert", "")
       ELSE IF Prog[step].as = ""
       THEN Goto(loc)
       ELSE GotoWith([polys EXCEPT ![Prog[step].as] =
                          [block |-> Prog[step].m, inverse |-> ""]], built)
    /\ UNCHANGED notConv

\* with open(file) as f: lines = [l.strip() for l in f.readlines()]
\* the file is closed when the statement is left
WithOpen ==
    /\ At("with")
    /\ Goto(loc)
    /\ UNCHANGED notConv

\* f = fits.open(file)
FitsOpen ==
    /\ At("fits_open")
    /\ IF Cur["fitsfile"] = "bad"
       THEN Raise("OSError", "not a FITS file", "")
       ELSE /\ step' = step + 1
            /\ opened' = opened \cup { fidx }
            /\ UNCHANGED << conv, files, fidx, loc, out, cpc, cexc, polys, built >>
    /\ UNCHANGED notConv

\* f[n].data ; header = f[n].header
Extension ==
    /\ At("ext")
    /\ IF Cur[Prog[step].m] = "absent"
       THEN Raise("IndexError", "list index out of range", Prog[step].m)
       ELSE Goto(loc)
    /\ UNCHANGED notConv

\* header[key]
Header ==
    /\ At("header")
    /\ IF Cur[Prog[step].m] = "absent"
       THEN Raise("KeyError", "Keyword not found", Prog[step].m)
       ELSE Goto(loc)
    /\ UNCHANGED notConv

\* f.close()
FitsClose ==
    /\ At("fits_close")
    /\ step' = step + 1
    /\ opened' = opened \ { fidx }
    /\ UNCHANGED << conv, files, fidx, loc, out, cpc, cexc, polys, built >>
    /\ UNCHANGED notConv

\* x_poly_forward.inverse = x_poly_backward ; y_poly_forward.inverse = y_poly_backward
Link ==
    /\ At("link")
    /\ GotoWith([polys EXCEPT !["x_poly_forward"].inverse = "x_poly_backward",
                              !["y_poly_forward"].inverse = "y_poly_backward"], built)
    /\ UNCHANGED notConv

\* model_poly = input2poly_mapping | (x_poly_forward & y_poly_forward) | ...
\* model = ... ; tree['model'] = model
Compose ==
    /\ At("model")
    /\ GotoWith(polys, Append(built, [x |-> "x_poly_forward", y |-> "y_poly_forward",
                                      surfaces |-> polys]))
    /\ UNCHANGED notConv

\* disperser = disfile.split('.dis')[0].split('_')[1]
DisperserName ==
    /\ At("disperser")
    /\ IF Cur["disfile"] = "bad"
       THEN Raise("IndexError", "list index out of range", "")
       ELSE Goto(loc)
    /\ UNCHANGED notConv

\* try: ind = lines.index('*TYPE') ... except ValueError: raise ValueError(...)
DisperserType ==
    /\ At("type")
    /\ IF Cur["*TYPE"] = "absent"
       THEN Raise("ValueError", "Unknown disperser type in disfile", "")
       ELSE Goto([loc EXCEPT !.dtype = Cur["*TYPE"]])
    /\ UNCHANGED notConv

\* d = dict.fromkeys(...) in one of the two branches, then d.update(ref_kw)
DisperserDict ==
    /\ At("dict")
    /\ IF loc.dtype \in { "gratingdata", "prismdata" }
       THEN Goto([loc EXCEPT !.d = "bound"])
       ELSE Raise("UnboundLocalError", "local variable 'd' referenced before assignment", "")
    /\ UNCHANGED notConv

\* try: grating_name = lines[lines.index('*GRATINGNAME') + 1] except: 'PRISM'
GratingName ==
    /\ At("gratingname")
    /\ Goto([loc EXCEPT !.grating_name =
                IF Cur["*GRATINGNAME"] = "absent" THEN "PRISM" ELSE "from file"])
    /\ UNCHANGED notConv

\* TiltX with a slip: the marker is looked up without the try
TiltXRequired ==
    /\ At("tiltx")
    /\ IF Cur["*TILTX"] = "absent"
       THEN Raise("ValueError", "is not in list", "*TILTX")
       ELSE Goto([loc EXCEPT !.tilt_x = "from file"])
    /\ UNCHANGED notConv

\* try: d['tilt_x'] = float(lines[lines.index('*TILTX') + 1]) except ValueError: 0.0
TiltX ==
    /\ At("tiltx")
    /\ Goto([loc EXCEPT !.tilt_x = IF Cur["*TILTX"] = "ok" THEN "from file" ELSE "0.0"])
    /\ UNCHANGED notConv

\* coefs = np.array(lines[ind : ind+int(l[-1])], dtype=np.float): the name l
\* is unbound in Python 3; in Python 2 it is the last line read from the file
Coefformula ==
    /\ At("coefformula")
    /\ \/ Raise("NameError", "name 'l' is not defined", "")
       \/ Raise("ValueError", "could not convert", "")
       \/ Goto(loc)
    /\ UNCHANGED notConv

\* coefs = lines[ind : ind + 2]; d['wbound'] = [float(c) for c in coefs]:
\* the first element is the marker line itself
Wbound ==
    /\ At("wbound")
    /\ Raise("ValueError", "could not convert", "")
    /\ UNCHANGED notConv

\* assert grating_name in tiltyfile ; assert grating_name in tiltxfile
AssertTilt ==
    /\ \/ At("assert_tilty") /\ IF Cur["tiltyfile name"] = "bad"
                                THEN Raise("AssertionError", "", "")
                                ELSE Goto(loc)
       \/ At("assert_tiltx") /\ IF Cur["tiltxfile name"] = "bad"
                                THEN Raise("AssertionError", "", "")
                                ELSE Goto(loc)
    /\ UNCHANGED notConv

\* tiltyd = disperser_tilt(tiltyfile) ; tiltxd = disperser_tilt(tiltxfile)
DisperserTilt ==
    /\ \/ At("disperser_tilt_y") /\ IF Cur["tiltyfile"] = "bad"
                                    THEN Raise("ValueError", "could not convert", "")
                                    ELSE Goto([loc EXCEPT !.tiltyd = "tiltyfile"])
       \/ At("disperser_tilt_x") /\ IF Cur["tiltxfile"] = "bad"
                                    THEN Raise("ValueError", "could not convert", "")
                                    ELSE Goto([loc EXCEPT !.tiltxd = "tiltxfile"])
    /\ UNCHANGED notConv

\* d['gwa_tiltx'] = tiltyd ; d['gwa_tilty'] = tiltxd
Gwa ==
    /\ At("gwa")
    /\ Goto([loc EXCEPT !.gwa_tiltx = loc.tiltyd, !.gwa_tilty = loc.tiltxd])
    /\ UNCHANGED notConv

\* the next iteration of "for fifu in ifupost_files"
NextFile ==
    /\ cpc = "run"
    /\ fidx < Len(files)
    /\ step > Len(Prog)
    /\ fidx' = fidx + 1
    /\ step' = 1
    /\ UNCHANGED << conv, files, loc, out, cpc, cexc, polys, built, opened >>
    /\ UNCHANGED notConv

\* f.write_to(outname)
Write ==
    /\ cpc = "run"
    /\ \/ Len(files) = 0
       \/ fidx = Len(files) /\ step > Len(Prog)
    /\ out' = [written |-> TRUE, tree |-> loc, model |-> built]
    /\ cpc' = "done"
    /\ UNCHANGED << conv, files, fidx, step, loc, cexc, polys, built, opened >>
    /\ UNCHANGED notConv

(***************************************************************************)
(* The batch drivers nirspec_models_to_asdf_build5 / _build6 as lists of   *)
(* statements: the construction of the metadata of an artifact, a          *)
(* conversion inside "try: ... except: print(msg); raise", and a           *)
(* conversion called outside any try.                                      *)
(***************************************************************************)
Kw(art) == [op |-> "kw", conv |-> "", art |-> art, msg |-> << >>]

Try(c, art, msg) == [op |-> "try", conv |-> c, art |-> art, msg |-> msg]

Bare(c, art) == [op |-> "bare", conv |-> c, art |-> art, msg |-> << >>]

Filters == << "CLEAR", "F070LP", "F100LP", "F110W", "F140X", "F170LP", "F290LP" >>

Gratings == << "G140H", "G140M", "G235H", "G235M", "G395H", "G395M", "MIRROR" >>

\* for i, filter in enumerate([...]): ref_kw = ...; try: fore2asdf(...)
RECURSIVE ForeLoop(_)
ForeLoop(n) ==
    IF n > Len(Filters) THEN << >>
    ELSE << Kw(<< "fore", Filters[n] >>),
            Try("fore2asdf", << "fore", Filters[n] >>,
                << "FORE file was not created - filter", Filters[n] >>) >>
           \o ForeLoop(n + 1)

\* for i, grating in enumerate([...]): ref_kw = ...; try: disperser2asdf(...)
RECURSIVE DisperserLoop(_)
DisperserLoop(n) ==
    IF n > Len(Gratings) THEN << >>
    ELSE << Kw(<< "disperser", Gratings[n] >>),
            Try("disperser2asdf", << "disperser", Gratings[n] >>,
                << "Disperser file was not converted." >>) >>
           \o DisperserLoop(n + 1)

\* the statements shared by the two drivers, camera to FPA
CameraToFpa ==
    << Kw(<< "camera" >>),
       Try("pcf2asdf", << "camera" >>, << "Camera file was not converted." >>),
       Kw(<< "collimator" >>),
       Try("pcf2asdf", << "collimator" >>, << "Collimator file was not converted." >>),
       Kw(<< "wavelengthrange" >>),
       Bare("wavelength_range", << "wavelengthrange" >>),
       Kw(<< "msa" >>),
       Try("msa2asdf", << "msa" >>, << "MSA file was not converted" >>),
       Kw(<< "fpa" >>),
       Try("fpa2asdf", << "fpa" >>, << "FPA file was not converted." >>) >>

OteStatements ==
    << Kw(<< "ote" >>),
       Try("ote2asdf", << "ote" >>, << "OTE file was not converted." >>) >>

nirspec_models_to_asdf_build5 ==
    CameraToFpa \o ForeLoop(1) \o DisperserLoop(1) \o OteStatements

nirspec_models_to_asdf_build6 ==
    CameraToFpa \o ForeLoop(1) \o DisperserLoop(1) \o OteStatements
      \o << Kw(<< "ifufore" >>),
            Try("fore2asdf", << "ifufore" >>, << "FORE file was not created." >>),
            Kw(<< "ifupost" >>),
            Try("ifupost2asdf", << "ifupost" >>, << "IFUPOST file was not created." >>),
            Kw(<< "ifuslicer" >>),
            Try("ifu_slicer2asdf", << "ifuslicer" >>,
                << "IFUSLICER file was not created." >>) >>

Drivers == { "build5", "build6" }

DriverProgram ==
    IF driver = "build5" THEN nirspec_models_to_asdf_build5
    ELSE nirspec_models_to_asdf_build6

\* the exceptions a conversion can end in
ConversionErrors ==
    { "ValueError", "IndexError", "KeyError", "IOError", "AssertionError",
      "NameError", "UnboundLocalError" }

NoDExc == [type |-> "", art |-> << >>]

DriverIdle ==
    /\ driver = ""
    /\ dstep = 1
    /\ attempted = << >>
    /\ printed = << >>
    /\ dpc = "idle"
    /\ dexc = NoDExc

DriverInit ==
    /\ driver \in Drivers
    /\ dstep = 1
    /\ attempted = << >>
    /\ printed = << >>
    /\ dpc = "run"
    /\ dexc = NoDExc

DAt(op) ==
    /\ dpc = "run"
    /\ dstep <= Len(DriverProgram)
    /\ DriverProgram[dstep].op = op

\* ref_kw = common_reference_file_keywords(...): seven required parameters;
\* build6 passes all of them by keyword, build5 passes two
Keywords ==
    /\ DAt("kw")
    /\ IF driver = "build5"
       THEN /\ dpc' = "raised"
            /\ dexc' = [type |-> "TypeError", art |-> DriverProgram[dstep].art]
            /\ UNCHANGED dstep
       ELSE /\ dstep' = dstep + 1
            /\ UNCHANGED << dpc, dexc >>
    /\ UNCHANGED << driver, attempted, printed >>
    /\ UNCHANGED notDriver

\* try: <converter>(...) : the call returns, or raises into the handler
CallTry ==
    /\ DAt("try")
    /\ attempted' = Append(attempted, DriverProgram[dstep].art)
    /\ \/ /\ dstep' = dstep + 1
          /\ UNCHANGED << dpc, dexc >>
       \/ \E e \in ConversionErrors :
             /\ dpc' = "except"
             /\ dexc' = [type |-> e, art |-> DriverProgram[dstep].art]
             /\ UNCHANGED dstep
    /\ UNCHANGED << driver, printed >>
    /\ UNCHANGED notDriver

\* Except with a slip: the handler prints and does not re-raise
ExceptNoRaise ==
    /\ dpc = "except"
    /\ printed' = Append(printed, DriverProgram[dstep].msg)
    /\ dpc' = "run"
    /\ dstep' = dstep + 1
    /\ UNCHANGED << driver, attempted, dexc >>
    /\ UNCHANGED notDriver

\* except: print(msg); raise
Except ==
    /\ dpc = "except"
    /\ printed' = Append(printed, DriverProgram[dstep].msg)
    /\ dpc' = "raised"
    /\ UNCHANGED << driver, dstep, attempted, dexc >>
    /\ UNCHANGED notDriver

\* wavelength_range(...) called outside any try
CallBare ==
    /\ DAt("bare")
    /\ attempted' = Append(attempted, DriverProgram[dstep].art)
    /\ \/ /\ dstep' = dstep + 1
          /\ UNCHANGED << dpc, dexc >>
       \/ \E e \in ConversionErrors :
             /\ dpc' = "raised"
             /\ dexc' = [type |-> e, art |-> DriverProgram[dstep].art]
             /\ UNCHANGED dstep
    /\ UNCHANGED << driver, printed >>
    /\ UNCHANGED notDriver

\* the driver falls off its last statement
DriverReturn ==
    /\ dpc = "run"
    /\ dstep > Len(DriverProgram)
    /\ dpc' = "done"
    /\ UNCHANGED << driver, dstep, attempted, printed, dexc >>
    /\ UNCHANGED notDriver

(***************************************************************************)
(* fpa2asdf: the detector transforms built from the values of the FPA file *)
(* Angles are whole quarter turns and pitches are +1 or -1, so that every  *)
(* matrix entry is an integer                                              *)
(***************************************************************************)
MaxTurns == 3

MaxPos == 1

MaxCoord == 2

Detectors == { "NRS1", "NRS2" }

Pitches == { -1, 1 }

\* 1 / pitch
Recip(p) == CHOOSE q \in Pitches : q * p = 1

\* an angle of k quarter turns, k of either sign, brought into 0..3
Quarter(k) == ((k % 4) + 4) % 4

Cos(k) == << 1, 0, -1, 0 >>[Quarter(k) + 1]

Sin(k) == << 0, 1, 0, -1 >>[Quarter(k) + 1]

\* models.Rotation2D._compute_matrix(angle)
compute_matrix(k) == << << Cos(k), -Sin(k) >>, << Sin(k), Cos(k) >> >>

\* np.array([[a, 0], [0, d]])
Diag(a, d) == << << a, 0 >>, << 0, d >> >>

\* np.dot(a, b) of two 2x2 matrices
Dot(a, b) ==
    << << a[1][1] * b[1][1] + a[1][2] * b[2][1], a[1][1] * b[1][2] + a[1][2] * b[2][2] >>,
       << a[2][1] * b[1][1] + a[2][2] * b[2][1], a[2][1] * b[1][2] + a[2][2] * b[2][2] >> >>

\* models.AffineTransformation2D(matrix)
Affine(matrix) == [t |-> "affine", matrix |-> matrix, dx |-> 0, dy |-> 0]

\* models.Shift(dx) & models.Shift(dy)
Shifts(dx, dy) == [t |-> "shift", matrix |-> Diag(1, 1), dx |-> dx, dy |-> dy]

\* one stage of a compound model applied to a coordinate
Stage(st, xy) ==
    IF st.t = "shift" THEN << xy[1] + st.dx, xy[2] + st.dy >>
    ELSE << st.matrix[1][1] * xy[1] + st.matrix[1][2] * xy[2],
            st.matrix[2][1] * xy[1] + st.matrix[2][2] * xy[2] >>

\* a compound model "a | b | ..." applied to a coordinate: a first
RECURSIVE Evaluate(_, _)
Evaluate(stages, xy) ==
    IF stages = << >> THEN xy ELSE Evaluate(Tail(stages), Stage(Head(stages), xy))

\* nrs1_sky2det = Shift(-posx) & Shift(-posy) | aff
nrs1_sky2det(v) ==
    << Shifts(-v.posx, -v.posy),
       Affine(Dot(compute_matrix(-v.angle), Diag(Recip(v.pitchx), Recip(v.pitchy)))) >>

\* nrs1_det2sky = aff | Shift(posx) & Shift(posy)
nrs1_det2sky(v) ==
    << Affine(Dot(compute_matrix(-v.angle), Diag(v.pitchx, v.pitchy))),
       Shifts(v.posx, v.posy) >>

\* nrs2_sky2det = Shift(-posx) & Shift(-posy) | aff
nrs2_sky2det(v) ==
    << Shifts(-v.posx, -v.posy),
       Affine(Dot(compute_matrix(-v.angle), Diag(-Recip(v.pitchx), -Recip(v.pitchy)))) >>

\* nrs2_det2sky = aff | Shift(posx) & Shift(posy)
nrs2_det2sky(v) ==
    << Affine(Dot(compute_matrix(v.angle), Diag(-v.pitchx, -v.pitchy))),
       Shifts(v.posx, v.posy) >>

\* the values of one detector: pitches, rotation angle, position
DetectorValues ==
    [pitchx : Pitches, pitchy : Pitches, angle : 0..MaxTurns,
     posx : 0..MaxPos, posy : -MaxPos..0]

Coords == { << x, x + 1 >> : x \in 0..MaxCoord }

NoTree == [d \in Detectors |-> [model |-> << >>, inverse |-> << >>]]

NoProbe == [det |-> "", xy |-> << 0, 0 >>, sky |-> << 0, 0 >>, back |-> << 0, 0 >>]

FpaIdle ==
    /\ fpa = << >>
    /\ tree = NoTree
    /\ probe = NoProbe
    /\ fpc = "idle"

FpaInit ==
    /\ fpa \in [Detectors -> DetectorValues]
    /\ tree = NoTree
    /\ probe = NoProbe
    /\ fpc = "read"

\* nrsN_det2sky.inverse = nrsN_sky2det ; tree['NRSN'] = nrsN_det2sky ; write_to
FpaWrite ==
    /\ fpc = "read"
    /\ tree' = [d \in Detectors |->
                   IF d = "NRS1"
                   THEN [model |-> nrs1_det2sky(fpa[d]), inverse |-> nrs1_sky2det(fpa[d])]
                   ELSE [model |-> nrs2_det2sky(fpa[d]), inverse |-> nrs2_sky2det(fpa[d])]]
    /\ fpc' = "written"
    /\ UNCHANGED << fpa, probe >>
    /\ UNCHANGED notFpa

\* tree[det](x, y)
Det2Sky ==
    /\ fpc = "written"
    /\ \E d \in Detectors, xy \in Coords :
           probe' = [det |-> d, xy |-> xy, sky |-> Evaluate(tree[d].model, xy),
                     back |-> << 0, 0 >>]
    /\ fpc' = "forward"
    /\ UNCHANGED << fpa, tree >>
    /\ UNCHANGED notFpa

\* tree[det].inverse(*sky)
Sky2Det ==
    /\ fpc = "forward"
    /\ probe' = [probe EXCEPT !.back = Evaluate(tree[probe.det].inverse, probe.sky)]
    /\ fpc' = "back"
    /\ UNCHANGED << fpa, tree >>
    /\ UNCHANGED notFpa

(***************************************************************************)
(* create_grism_config: the lists written to the reference file            *)
(***************************************************************************)
MaxTags == 2

kDISPL == << "D","I","S","P","L" >>

kDISPX == << "D","I","S","P","X" >>

kDISPY == << "D","I","S","P","Y" >>

kFWCPOS == << "F","W","C","P","O","S","_","R","E","F" >>

\* the characters of the keys in the order of their code points
CodeSeq == DigitSeq \o UpperSeq \o << "_" >> \o LowerSeq

Ord(c) == CHOOSE n \in 1..Len(CodeSeq) : CodeSeq[n] = c

\* a < b for two Python strings
RECURSIVE StrLess(_, _)
StrLess(a, b) ==
    IF b = << >> THEN FALSE
    ELSE IF a = << >> THEN TRUE
    ELSE IF Head(a) = Head(b) THEN StrLess(Tail(a), Tail(b))
    ELSE Ord(Head(a)) < Ord(Head(b))

RECURSIVE Insert(_, _)
Insert(x, xs) ==
    IF xs = << >> THEN << x >>
    ELSE IF StrLess(x, Head(xs)) THEN << x >> \o xs
    ELSE << Head(xs) >> \o Insert(x, Tail(xs))

RECURSIVE InsertAll(_, _)
InsertAll(xs, acc) ==
    IF xs = << >> THEN acc ELSE InsertAll(Tail(xs), Insert(Head(xs), acc))

\* sorted with a slip: the keys stay in the order of the dictionary
sortedNot(xs) == xs

\* sorted(beamdict.keys())
sorted(xs) == InsertAll(xs, << >>)

\* beam_lookup = {"A": "+1", "B": "0", "C": "+2", "D": "+3", "E": "-1"} ; int(...)
beam_lookup ==
    << [k |-> << "A" >>, v |-> 1], [k |-> << "B" >>, v |-> 0], [k |-> << "C" >>, v |-> 2],
       [k |-> << "D" >>, v |-> 3], [k |-> << "E" >>, v |-> -1] >>

GErr(type, text, arg) == [type |-> type, text |-> text, arg |-> arg]

\* v / 10000.
Div10000(v) ==
    LET Of(p) == NumV("float", p[1], p[2]) IN Of(Normalise(v.m, v.e - 4))

\* a / b for a divisor that is a power of ten, the only divisors of the inputs
Quot(a, b) ==
    LET Of(p) == NumV("float", p[1], p[2]) IN Of(Normalise(a.m * b.m, a.e - b.e))

Neg(a) == [a EXCEPT !.m = -a.m]

OneV == NumV("float", 1, 0)

\* Polynomial1D(1, c0=l0, c1=l1) and Polynomial1D(1, c0=-l0/l1, c1=1./l1)
Wavelengths(L) ==
    IF L.t = "num"
    THEN [exc |-> GErr("TypeError", "object is not subscriptable", kDISPL)]
    ELSE IF Len(L.items) < 2
    THEN [exc |-> GErr("IndexError", "index out of range", kDISPL)]
    ELSE IF L.items[1].t # "num" \/ L.items[2].t # "num"
    THEN [exc |-> GErr("TypeError", "unsupported operand type(s) for /", kDISPL)]
    ELSE IF L.items[2].m = 0
    THEN [exc |-> GErr("ZeroDivisionError", "float division by zero", kDISPL)]
    ELSE [exc |-> NoExc,
          displ |-> [c0 |-> Div10000(L.items[1]), c1 |-> Div10000(L.items[2])],
          invdispl |-> [c0 |-> Neg(Quot(Div10000(L.items[1]), Div10000(L.items[2]))),
                        c1 |-> Quot(OneV, Div10000(L.items[2]))]]

\* Polynomial2D(2, c0_0=e[0], c1_0=e[1], c2_0=e[4], c0_1=e[2], c1_1=e[5], c0_2=e[3])
Polynomial2D(e) ==
    [c0_0 |-> e.items[1], c1_0 |-> e.items[2], c2_0 |-> e.items[5],
     c0_1 |-> e.items[3], c1_1 |-> e.items[6], c0_2 |-> e.items[4]]

\* e0, e1 = beamdict[order][name] ; (model_x, model_y)
ModelPair(X, name) ==
    IF X.t = "num"
    THEN [exc |-> GErr("TypeError", "cannot unpack non-iterable", name)]
    ELSE IF Len(X.items) # 2
    THEN [exc |-> GErr("ValueError", "not two values to unpack", name)]
    ELSE IF X.items[1].t = "num" \/ X.items[2].t = "num"
    THEN [exc |-> GErr("TypeError", "object is not subscriptable", name)]
    ELSE IF Len(X.items[1].items) < 6 \/ Len(X.items[2].items) < 6
    THEN [exc |-> GErr("IndexError", "list index out of range", name)]
    ELSE [exc |-> NoExc, pair |-> << Polynomial2D(X.items[1]), Polynomial2D(X.items[2]) >>]

\* the body of "for order in orders" for the dictionary d of one order
OrderEntry(d) ==
    LET Missing(name) == [exc |-> GErr("KeyError", "", name)]
        WithY(w, x, y) ==
            IF y.exc # NoExc THEN y
            ELSE [exc |-> NoExc, displ |-> w.displ, invdispl |-> w.invdispl,
                  dispx |-> x.pair, dispy |-> y.pair]
        WithX(w, x) ==
            IF x.exc # NoExc THEN x
            ELSE IF ~DictHas(d, kDISPY) THEN Missing(kDISPY)
            ELSE WithY(w, x, ModelPair(DictGet(d, kDISPY), kDISPY))
        WithL(w) ==
            IF w.exc # NoExc THEN w
            ELSE IF ~DictHas(d, kDISPX) THEN Missing(kDISPX)
            ELSE WithX(w, ModelPair(DictGet(d, kDISPX), kDISPX))
    IN  IF ~DictHas(d, kDISPL) THEN Missing(kDISPL)
        ELSE WithL(Wavelengths(DictGet(d, kDISPL)))

\* ordermap = [int(beam_lookup[order]) for order in orders]
RECURSIVE OrderMap(_)
OrderMap(os) ==
    IF os = << >> THEN << >>
    ELSE << DictGet(beam_lookup, Head(os)) >> \o OrderMap(Tail(os))

\* configuration files: for each tag, in the order of appearance, the two
\* DISPL, DISPX and DISPY range lines, whose first value tells the tag
TagPool == { << "A" >>, << "B" >>, << "C" >>, << "F" >> }

TagDigit(t) == DigitSeq[(CHOOSE n \in 1..26 : UpperSeq[n] = t[1]) + 1]

Field(name, t, suffix, value) ==
    name \o << "_" >> \o t \o << "_", suffix, " " >> \o value \o << "\n" >>

Six(c) == << c, " ", "1", " ", "2", " ", "3", " ", "4", " ", "5" >>

TagLines(t) ==
    << Field(kDISPL, t, "0", << TagDigit(t), "0", "0", "0", "0" >>),
       Field(kDISPL, t, "1", << "1", "0", "0", "0", "0" >>),
       Field(kDISPX, t, "0", Six(TagDigit(t))),
       Field(kDISPX, t, "1", Six("0")),
       Field(kDISPY, t, "0", Six(TagDigit(t))),
       Field(kDISPY, t, "1", Six("7")) >>

RECURSIVE LinesOf(_)
LinesOf(ts) == IF ts = << >> THEN << >> ELSE TagLines(Head(ts)) \o LinesOf(Tail(ts))

\* the sequences of at most n distinct tags
RECURSIVE Arrangements(_)
Arrangements(n) ==
    IF n = 0 THEN { << >> }
    ELSE LET Longer(prev) ==
               prev \cup UNION { { Append(a, t) : t \in TagPool \ { a[i] : i \in 1..Len(a) } } :
                                 a \in { b \in prev : Len(b) = n - 1 } }
         IN  Longer(Arrangements(n - 1))

\* a sound file; one without FWCPOS_REF; one that begins with the second
\* half of a range of tag A; one whose DISPX_A_0 is set again, too short
GrismFiles ==
    UNION { { LinesOf(ts) \o << lnFwcpos >>,
              LinesOf(ts),
              << Field(kDISPL, << "A" >>, "1", << "1", "0", "0", "0", "0" >>) >>
                \o LinesOf(ts) \o << lnFwcpos >>,
              LinesOf(ts) \o << Field(kDISPX, << "A" >>, "0", << "1", " ", "2" >>), lnFwcpos >> } :
            ts \in Arrangements(MaxTags) }

NoRef == [written |-> FALSE, orders |-> << >>, dispx |-> << >>, dispy |-> << >>,
          displ |-> << >>, invdispl |-> << >>, fwcpos_ref |-> NoneV]

GrismIdle ==
    /\ orders = << >>
    /\ oidx = 1
    /\ ref = NoRef
    /\ gpc = "idle"
    /\ gexc = NoExc

\* conf = dict_from_file(conffile) is about to be called
GrismInit ==
    /\ lines \in GrismFiles
    /\ lineno = 1
    /\ content = << >>
    /\ ret = NoRet
    /\ pc = "loop"
    /\ exc = NoExc
    /\ evald = << >>
    /\ rdict = << >>
    /\ orders = << >>
    /\ oidx = 1
    /\ ref = NoRef
    /\ gpc = "conf"
    /\ gexc = NoExc

\* dict_from_file or split_order_info raised: the error leaves create_grism_config
GrismRaise ==
    /\ gpc = "conf"
    /\ pc \in { "raised", "group_raised" }
    /\ gpc' = "raised"
    /\ gexc' = exc
    /\ UNCHANGED << orders, oidx, ref >>
    /\ UNCHANGED notGrism

\* orders = sorted(beamdict.keys()) ; displ = [] ; dispx = [] ; dispy = [] ; invdispl = []
SortOrders ==
    /\ gpc = "conf"
    /\ pc = "grouped"
    /\ orders' = sorted(DictKeys(rdict))
    /\ oidx' = 1
    /\ gpc' = "loop"
    /\ UNCHANGED << ref, gexc >>
    /\ UNCHANGED notGrism

\* one iteration of "for order in orders"
OrderBody ==
    /\ gpc = "loop"
    /\ oidx <= Len(orders)
    /\ \E r \in { OrderEntry(DictGet(rdict, orders[oidx])) } :
           IF r.exc # NoExc
           THEN /\ gpc' = "raised"
                /\ gexc' = r.exc
                /\ UNCHANGED << oidx, ref >>
           ELSE /\ ref' = [ref EXCEPT !.invdispl = Append(@, r.invdispl),
                                      !.displ = Append(@, r.displ),
                                      !.dispx = Append(@, r.dispx),
                                      !.dispy = Append(@, r.dispy)]
                /\ oidx' = oidx + 1
                /\ UNCHANGED << gpc, gexc >>
    /\ UNCHANGED orders
    /\ UNCHANGED notGrism

\* ordermap = [...] ; ref.dispx = dispx ; ... ; ref.fwcpos_ref = conf['FWCPOS_REF'] ;
\* ref.orders = ordermap ; ref.to_asdf(outname)
Save ==
    /\ gpc = "loop"
    /\ oidx > Len(orders)
    /\ IF \E n \in 1..Len(orders) : ~DictHas(beam_lookup, orders[n])
       THEN /\ gpc' = "raised"
            /\ gexc' = GErr("KeyError", "",
                            orders[CHOOSE n \in 1..Len(orders) :
                                       /\ ~DictHas(beam_lookup, orders[n])
                                       /\ \A m \in 1..(n - 1) : DictHas(beam_lookup, orders[m])])
            /\ UNCHANGED ref
       ELSE IF ~DictHas(ret.d, kFWCPOS)
       THEN /\ gpc' = "raised"
            /\ gexc' = GErr("KeyError", "", kFWCPOS)
            /\ UNCHANGED ref
       ELSE /\ ref' = [ref EXCEPT !.orders = OrderMap(orders),
                                  !.fwcpos_ref = DictGet(ret.d, kFWCPOS),
                                  !.written = TRUE]
            /\ gpc' = "written"
            /\ UNCHANGED gexc
    /\ UNCHANGED << orders, oidx >>
    /\ UNCHANGED notGrism

\* ref.validate(): the model built from ref_kw and the lists meets the schema
\* and the requirements of its class, or the call raises
Validate ==
    /\ gpc = "written"
    /\ \E valid \in BOOLEAN :
           IF valid
           THEN /\ gpc' = "validated"
                /\ UNCHANGED gexc
           ELSE /\ gpc' = "raised"
                /\ gexc' = GErr("ValidationError", "", << >>)
    /\ UNCHANGED << orders, oidx, ref >>
    /\ UNCHANGED notGrism

(***************************************************************************)
(* split_order_info on dictionaries that dict_from_file can return: at     *)
(* most MaxKeys keys of a pool, in every insertion order, the value of     *)
(* each key being its number in the pool                                   *)
(***************************************************************************)
MaxKeys == 3

KeyPool ==
    << << "D","I","S","P","_","A","_","0" >>,
       << "D","I","S","P","_","A","_","1" >>,
       << "D","I","S","P","X","_","A","_","0" >>,
       << "D","I","S","P","X","_","A","_","1" >>,
       << "X","O","F","F","_","B","_","0" >>,
       << "X","O","F","F","_","B","_","1" >>,
       << "D","I","S","P","X","_","a","_","0" >>,
       << "Y","O","F","F","_","A","_","A","B" >> >>

\* the insertion orders of at most n distinct keys of the pool
RECURSIVE KeyOrders(_)
KeyOrders(n) ==
    IF n = 0 THEN { << >> }
    ELSE LET Longer(prev) ==
               prev \cup UNION { { Append(a, i) : i \in (1..Len(KeyPool)) \ { a[j] : j \in 1..Len(a) } } :
                                 a \in { b \in prev : Len(b) = n - 1 } }
         IN  Longer(KeyOrders(n - 1))

KeyDicts ==
    { [n \in 1..Len(a) |-> [k |-> KeyPool[a[n]], v |-> NumV("int", a[n], 0)]] :
        a \in KeyOrders(MaxKeys) }

\* conf = dict_from_file(conffile) has returned
SplitInit ==
    /\ lines = << >>
    /\ lineno = 1
    /\ content \in KeyDicts
    /\ ret = [ok |-> TRUE, d |-> content]
    /\ pc = "returned"
    /\ exc = NoExc
    /\ evald = << >>
    /\ rdict = << >>

(***************************************************************************)
(* The helper functions common_reference_file_keywords (both modules) and  *)
(* coeffs_from_pcf, each called once on arguments of a bounded set         *)
(***************************************************************************)
MaxKwargs == 2

MaxDegree == 2

MaxExtra == 1

StrV(text) == [t |-> "str", kind |-> text, m |-> 0, e |-> 0, items |-> << >>]

DictV(d) == [t |-> "dict", kind |-> "", m |-> 0, e |-> 0, items |-> d]

NoRes == [done |-> FALSE, exc |-> NoExc, d |-> << >>]

Returned(d) == [done |-> TRUE, exc |-> NoExc, d |-> d]

Raised(type, text) == [done |-> TRUE, exc |-> GErr(type, text, << >>), d |-> << >>]

\* ref_file_common_keywords["instrument"][name] = value
SetInstrument(d, name, value) ==
    DictSet(d, "instrument",
            DictV(DictSet(DictGet(d, "instrument").items, name, value)))

\* the NIRISS function with a slip: the pupil is stored when a filter is given
niriss_keywords_pupil_by_filter(a) ==
    IF a.exp_type = NoneV THEN Raised("ValueError", "Expected exp_type")
    ELSE IF a.reftype = NoneV THEN Raised("ValueError", "Expected reftype")
    ELSE LET Update(d) == Returned(DictUpdate(d, a.kwargs))
             Pupil(d) == Update(IF a.filtername # NoneV
                                THEN SetInstrument(d, "pupil", a.pupil) ELSE d)
             Filter(d) == Pupil(IF a.filtername # NoneV
                                THEN SetInstrument(d, "filter", a.filtername) ELSE d)
         IN  Filter(<< [k |-> "author", v |-> a.author],
                       [k |-> "description", v |-> a.description],
                       [k |-> "exposure", v |-> DictV(<< [k |-> "type", v |-> a.exp_type] >>)],
                       [k |-> "instrument",
                        v |-> DictV(<< [k |-> "name", v |-> StrV("NIRISS")],
                                       [k |-> "detector", v |-> StrV("NIS")] >>)],
                       [k |-> "pedigree", v |-> StrV("ground")],
                       [k |-> "reftype", v |-> a.reftype],
                       [k |-> "telescope", v |-> StrV("JWST")],
                       [k |-> "title", v |-> a.title],
                       [k |-> "useafter", v |-> a.useafter],
                       [k |-> "filename", v |-> a.filename] >>)

\* common_reference_file_keywords of niriss_grism_reffiles.py
niriss_common_reference_file_keywords(a) ==
    IF a.exp_type = NoneV THEN Raised("ValueError", "Expected exp_type")
    ELSE IF a.reftype = NoneV THEN Raised("ValueError", "Expected reftype")
    ELSE LET Update(d) == Returned(DictUpdate(d, a.kwargs))
             Pupil(d) == Update(IF a.pupil # NoneV
                                THEN SetInstrument(d, "pupil", a.pupil) ELSE d)
             Filter(d) == Pupil(IF a.filtername # NoneV
                                THEN SetInstrument(d, "filter", a.filtername) ELSE d)
         IN  Filter(<< [k |-> "author", v |-> a.author],
                       [k |-> "description", v |-> a.description],
                       [k |-> "exposure", v |-> DictV(<< [k |-> "type", v |-> a.exp_type] >>)],
                       [k |-> "instrument",
                        v |-> DictV(<< [k |-> "name", v |-> StrV("NIRISS")],
                                       [k |-> "detector", v |-> StrV("NIS")] >>)],
                       [k |-> "pedigree", v |-> StrV("ground")],
                       [k |-> "reftype", v |-> a.reftype],
                       [k |-> "telescope", v |-> StrV("JWST")],
                       [k |-> "title", v |-> a.title],
                       [k |-> "useafter", v |-> a.useafter],
                       [k |-> "filename", v |-> a.filename] >>)

\* common_reference_file_keywords of nirspec_fs_ref_tools.py
nirspec_common_reference_file_keywords(a) ==
    Returned(DictUpdate(<< [k |-> "author", v |-> a.author],
                           [k |-> "description", v |-> a.description],
                           [k |-> "exp_type", v |-> a.exp_type],
                           [k |-> "filename", v |-> a.filename],
                           [k |-> "instrume", v |-> StrV("NIRSPEC")],
                           [k |-> "pedigree", v |-> StrV("GROUND")],
                           [k |-> "reftype", v |-> a.reftype],
                           [k |-> "telescope", v |-> StrV("JWST")],
                           [k |-> "title", v |-> a.title],
                           [k |-> "useafter", v |-> a.useafter] >>,
                        a.kwargs))

\* float(text) for a text made of a sign, digits, a point and an exponent
Float(text) ==
    LET Of(p) ==
          IF /\ NumbersFullmatch(text)
             /\ p.int \o p.frac # << >>
             /\ p.hasExp => p.exp # << >>
          THEN LET Val(n) == NumV("float", IF p.neg THEN 0 - n[1] ELSE n[1], n[2])
               IN  [exc |-> "",
                    val |-> Val(Normalise(ToNat(p.int \o p.frac),
                                          (IF p.expNeg THEN 0 - ToNat(p.exp) ELSE ToNat(p.exp))
                                            - Len(p.frac)))]
          ELSE [exc |-> "ValueError", val |-> NoneV]
    IN  Of(NumParts(text))

\* "c{0}_{1}".format(i, j) for one-digit i and j
CoeffName(i, j) == << "c", DigitSeq[i + 1], "_", DigitSeq[j + 1] >>

\* the loops of coeffs_from_pcf with a slip: j is the outer index
RECURSIVE CoeffLoopByColumn(_, _, _, _, _, _)
CoeffLoopByColumn(degree, coeffslist, i, j, k, coeffs) ==
    IF i >= degree + 1 THEN Returned(coeffs)
    ELSE IF j >= degree + 1 THEN CoeffLoopByColumn(degree, coeffslist, i + 1, 0, k, coeffs)
    ELSE IF i + j < degree + 1
    THEN IF k + 1 > Len(coeffslist) THEN Raised("IndexError", "list index out of range")
         ELSE IF Float(coeffslist[k + 1]).exc # ""
         THEN Raised("ValueError", "could not convert string to float")
         ELSE CoeffLoopByColumn(degree, coeffslist, i, j + 1, k + 1,
                                DictSet(coeffs, CoeffName(j, i), Float(coeffslist[k + 1]).val))
    ELSE CoeffLoopByColumn(degree, coeffslist, i, j + 1, k, coeffs)

\* for i in range(degree + 1): for j in range(degree + 1): ... from (i, j, k)
RECURSIVE CoeffLoop(_, _, _, _, _, _)
CoeffLoop(degree, coeffslist, i, j, k, coeffs) ==
    IF i >= degree + 1 THEN Returned(coeffs)
    ELSE IF j >= degree + 1 THEN CoeffLoop(degree, coeffslist, i + 1, 0, k, coeffs)
    ELSE IF i + j < degree + 1
    THEN IF k + 1 > Len(coeffslist) THEN Raised("IndexError", "list index out of range")
         ELSE IF Float(coeffslist[k + 1]).exc # ""
         THEN Raised("ValueError", "could not convert string to float")
         ELSE CoeffLoop(degree, coeffslist, i, j + 1, k + 1,
                        DictSet(coeffs, CoeffName(i, j), Float(coeffslist[k + 1]).val))
    ELSE CoeffLoop(degree, coeffslist, i, j + 1, k, coeffs)

coeffs_from_pcf(degree, coeffslist) == CoeffLoop(degree, coeffslist, 0, 0, 0, << >>)

\* (d+1)(d+2)/2
PairCount(d) == ((d + 1) * (d + 2)) \div 2

KwargPool ==
    << [k |-> "pedigree", v |-> StrV("DUMMY")],
       [k |-> "instrument", v |-> DictV(<< [k |-> "name", v |-> StrV("NIRISS")] >>)],
       [k |-> "subarray", v |-> StrV("FULL")] >>

\* the extra keyword arguments: at most MaxKwargs distinct names, in any order
RECURSIVE KwargOrders(_)
KwargOrders(n) ==
    IF n = 0 THEN { << >> }
    ELSE LET Longer(prev) ==
               prev \cup UNION { { Append(a, i) : i \in (1..Len(KwargPool)) \ { a[j] : j \in 1..Len(a) } } :
                                 a \in { b \in prev : Len(b) = n - 1 } }
         IN  Longer(KwargOrders(n - 1))

Kwargs == { [n \in 1..Len(a) |-> KwargPool[a[n]]] : a \in KwargOrders(MaxKwargs) }

NoArgs == [reftype |-> NoneV, author |-> NoneV, exp_type |-> NoneV, description |-> NoneV,
           title |-> NoneV, useafter |-> NoneV, filtername |-> NoneV, filename |-> NoneV,
           pupil |-> NoneV, kwargs |-> << >>, degree |-> 0, coeffslist |-> << >>]

\* calls that leave author, description, title, useafter and filename at
\* their defaults
NirissCalls ==
    { [NoArgs EXCEPT !.reftype = r, !.exp_type = x, !.filtername = f, !.pupil = q,
                     !.kwargs = kw,
                     !.author = StrV("STScI"), !.description = StrV("NIRISS Reference File"),
                     !.title = StrV("NIRISS Reference File"),
                     !.useafter = StrV("2014-01-01T00:00:00"), !.filename = StrV("")] :
        r \in { NoneV, StrV("specwcs") }, x \in { NoneV, StrV("NIS_WFSS") },
        f \in { NoneV, StrV("GR150C") }, q \in { NoneV, StrV("F090W") }, kw \in Kwargs }

NirspecCalls ==
    { [NoArgs EXCEPT !.reftype = StrV("camera"), !.title = StrV("NIRSPEC Camera file"),
                     !.description = StrV("Cold design CAM transform"),
                     !.exp_type = x, !.useafter = StrV("2013-01-01T00:00:00"),
                     !.author = au, !.filename = StrV("camera.asdf"), !.kwargs = kw] :
        x \in { StrV("N/A"), StrV("ANY") }, au \in { NoneV, StrV("STScI") }, kw \in Kwargs }

CoeffTexts == { << "3" >>, << "-", "2", ".", "5", "e", "1" >> }

NotANumber == << "x" >>

\* the lists of at most n coefficient texts
RECURSIVE CoeffLists(_)
CoeffLists(n) ==
    IF n = 0 THEN { << >> }
    ELSE LET Longer(prev) ==
               prev \cup { Append(l, c) : l \in { b \in prev : Len(b) = n - 1 }, c \in CoeffTexts }
         IN  Longer(CoeffLists(n - 1))

\* a degree and a list of coefficient texts, which may be too short, or have
\* lines of another kind after the coefficients of the degree
CoeffCalls ==
    LET Of(ls) ==
          { [NoArgs EXCEPT !.degree = d, !.coeffslist = l] : d \in 0..MaxDegree, l \in ls }
            \cup { [NoArgs EXCEPT !.degree = q[1], !.coeffslist = Append(q[2], NotANumber)] :
                     q \in { c \in (0..MaxDegree) \X ls : Len(c[2]) >= PairCount(c[1]) } }
    IN  Of(CoeffLists(PairCount(MaxDegree) + MaxExtra))

CallIdle ==
    /\ fn = ""
    /\ args = NoArgs
    /\ res = NoRes

CallInit ==
    /\ \/ fn = "niriss" /\ args \in NirissCalls
       \/ fn = "nirspec" /\ args \in NirspecCalls
       \/ fn = "coeffs_from_pcf" /\ args \in CoeffCalls
    /\ res = NoRes

CallNiriss ==
    /\ fn = "niriss"
    /\ ~res.done
    /\ res' = niriss_common_reference_file_keywords(args)
    /\ UNCHANGED << fn, args >>
    /\ UNCHANGED notCall

CallNirspec ==
    /\ fn = "nirspec"
    /\ ~res.done
    /\ res' = nirspec_common_reference_file_keywords(args)
    /\ UNCHANGED << fn, args >>
    /\ UNCHANGED notCall

CallCoeffs ==
    /\ fn = "coeffs_from_pcf"
    /\ ~res.done
    /\ res' = coeffs_from_pcf(args.degree, args.coeffslist)
    /\ UNCHANGED << fn, args >>
    /\ UNCHANGED notCall

(***************************************************************************)
(* Specifications                                                          *)
(***************************************************************************)
Init == ParseInit /\ ConvIdle /\ DriverIdle /\ FpaIdle /\ GrismIdle /\ CallIdle

Next == ReadLine \/ Return \/ SplitOrderInfo

Spec == Init /\ [][Next]_vars

InitConv == ConvInit /\ ParseIdle /\ DriverIdle /\ FpaIdle /\ GrismIdle /\ CallIdle

NextConv ==
    \/ Index \/ Convert \/ DisperserName \/ DisperserType \/ DisperserDict
    \/ GratingName \/ TiltX \/ Coefformula \/ Wbound \/ AssertTilt
    \/ DisperserTilt \/ Gwa \/ NextFile \/ Write
    \/ WithOpen \/ Link \/ Compose \/ FitsOpen \/ Extension \/ Header \/ FitsClose

SpecConv == InitConv /\ [][NextConv]_vars

InitDriver == DriverInit /\ ParseIdle /\ ConvIdle /\ FpaIdle /\ GrismIdle /\ CallIdle

NextDriver == Keywords \/ CallTry \/ Except \/ CallBare \/ DriverReturn

SpecDriver == InitDriver /\ [][NextDriver]_vars

InitFpa == FpaInit /\ ParseIdle /\ ConvIdle /\ DriverIdle /\ GrismIdle /\ CallIdle

NextFpa == FpaWrite \/ Det2Sky \/ Sky2Det

SpecFpa == InitFpa /\ [][NextFpa]_vars

InitGrism == GrismInit /\ ConvIdle /\ DriverIdle /\ FpaIdle /\ CallIdle

NextGrism ==
    \/ ReadLine \/ Return \/ SplitOrderInfo
    \/ GrismRaise \/ SortOrders \/ OrderBody \/ Save \/ Validate

SpecGrism == InitGrism /\ [][NextGrism]_vars

InitSplit == SplitInit /\ ConvIdle /\ DriverIdle /\ FpaIdle /\ GrismIdle /\ CallIdle

NextSplit == SplitOrderInfo

SpecSplit == InitSplit /\ [][NextSplit]_vars

InitCall == CallInit /\ ParseIdle /\ ConvIdle /\ DriverIdle /\ FpaIdle /\ GrismIdle

NextCall == CallNiriss \/ CallNirspec \/ CallCoeffs

SpecCall == InitCall /\ [][NextCall]_vars

(***************************************************************************)
(* Vocabulary of the properties                                            *)
(***************************************************************************)
\* the line is neither blank nor rejected by the first-letter test
Considered(line) == ~EmptyMatch(line) /\ LettersMatch(line)

FieldName(line) == ReSplit(Strip(line))[1]

ValueTokens(line) == Tail(ReSplit(Strip(line)))

HasFilterOrSens(key) == IsSubstring(kFILTER, key) \/ IsSubstring(kSENS, key)

\* the field names that the file defines and the parser does not drop
RecordedNames ==
    { FieldName(lines[n]) :
        n \in { i \in 1..Len(lines) :
                  Considered(lines[i]) /\ ~HasFilterOrSens(FieldName(lines[i])) } }

\* the last considered line that carries the field name k
LastLine(k) ==
    CHOOSE n \in 1..Len(lines) :
        /\ Considered(lines[n]) /\ FieldName(lines[n]) = k
        /\ \A i \in (n + 1)..Len(lines) :
               ~(Considered(lines[i]) /\ FieldName(lines[i]) = k)

IntV(n) == NumV("int", n, 0)

Float5 == NumV("float", 5, 0)

Float10 == NumV("float", 1, 1)

kTagA == << "A" >>

kMMAG_EXTRACT == << "M","M","A","G","_","E","X","T","R","A","C","T" >>

IsNumber(v) == v.t = "num" /\ v.kind \in { "int", "float" }

(***************************************************************************)
(* C1  Parsing the one-line file 'DISPX_A 1 2 3 4 5 6' and grouping the     *)
(* result gives exactly {"A": {"DISPX": [1,2,3,4,5,6]}}.                    *)
(* The code returns the empty mapping: the key does not match the token    *)
(* pattern, which wants '_<tag>_<word character>'.                         *)
(***************************************************************************)
C1_GroupsTrailingTag ==
    (pc = "grouped" /\ lines = << lnDispxA >>) =>
        rdict = << [k |-> kTagA,
                    v |-> << [k |-> kDISPX,
                              v |-> ListV(<< IntV(1), IntV(2), IntV(3),
                                             IntV(4), IntV(5), IntV(6) >>)] >>] >>

(***************************************************************************)
(* C2  With MMAG_EXTRACT_A_0 = 5.0 and MMAG_EXTRACT_A_1 = 10.0 in the raw   *)
(* mapping, the result files MMAG_EXTRACT = (5.0, 10.0) under tag 'A' and   *)
(* holds neither suffixed key.  The code creates no group at all: after    *)
(* 'MMAG_' the pattern wants a one-character tag followed by '_'.          *)
(***************************************************************************)
C2_MergesUnderscoredName ==
    ( /\ pc = "grouped"
      /\ DictHas(ret.d, FieldName(lnMmagA0))
      /\ DictGet(ret.d, FieldName(lnMmagA0)) = Float5
      /\ DictHas(ret.d, FieldName(lnMmagA1))
      /\ DictGet(ret.d, FieldName(lnMmagA1)) = Float10 ) =>
        /\ DictHas(rdict, kTagA)
        /\ DictHas(DictGet(rdict, kTagA), kMMAG_EXTRACT)
        /\ DictGet(DictGet(rdict, kTagA), kMMAG_EXTRACT) = TupleV(Float5, Float10)
        /\ ~DictHas(DictGet(rdict, kTagA), kMMAG_EXTRACT \o << "_", "0" >>)
        /\ ~DictHas(DictGet(rdict, kTagA), kMMAG_EXTRACT \o << "_", "1" >>)

(***************************************************************************)
(* C3  Every key of the input that does not match the tagged-key pattern   *)
(* appears at the top level of the result with its value unchanged.        *)
(* The code never copies such a key into the result.                       *)
(***************************************************************************)
C3_PassesUntaggedKeys ==
    pc = "grouped" =>
        \A n \in 1..Len(ret.d) :
            ~TokenMatch(ret.d[n].k) =>
                /\ DictHas(rdict, ret.d[n].k)
                /\ DictGet(rdict, ret.d[n].k) = ret.d[n].v

(***************************************************************************)
(* C4  (as stated) the number of entries of the returned mapping equals    *)
(* the number of non-blank lines that start with a letter.                 *)
(***************************************************************************)
C4_OneEntryPerLine ==
    pc = "returned" =>
        Len(ret.d) = Cardinality({ n \in 1..Len(lines) : Considered(lines[n]) })

(***************************************************************************)
(* C4  (amended) the keys of the returned mapping are exactly the field    *)
(* names of the non-blank, letter-initial lines whose name contains        *)
(* neither FILTER nor SENS, one entry per distinct name; blank lines and   *)
(* lines not starting with a letter contribute nothing.                    *)
(***************************************************************************)
C4_OneEntryPerRecordedName ==
    pc = "returned" =>
        /\ { ret.d[n].k : n \in 1..Len(ret.d) } = RecordedNames
        /\ Len(ret.d) = Cardinality(RecordedNames)

C4_Witness ==
    /\ pc = "returned"
    /\ Len(lines) = 2
    /\ Considered(lines[1]) /\ Considered(lines[2])
    /\ FieldName(lines[1]) = FieldName(lines[2])
    /\ Len(ret.d) = 1

(***************************************************************************)
(* C5  No key of the mapping that dict_from_file builds and returns        *)
(* contains 'FILTER' or 'SENS', whatever followed the name on its line.    *)
(***************************************************************************)
C5_NoFilterNoSens ==
    /\ \A n \in 1..Len(content) : ~HasFilterOrSens(content[n].k)
    /\ \A n \in 1..Len(ret.d) : ~HasFilterOrSens(ret.d[n].k)

C5_Witness ==
    /\ pc = "returned"
    /\ \E n \in 1..Len(lines) :
           /\ Considered(lines[n])
           /\ IsSubstring(kSENS, FieldName(lines[n]))
           /\ ValueTokens(lines[n]) # << >>
    /\ \E n \in 1..Len(lines) :
           Considered(lines[n]) /\ IsSubstring(kFILTER, FieldName(lines[n]))

(***************************************************************************)
(* C7  When the line being read has more than one value token and one of   *)
(* them fails the numeric pattern, the call raises and returns no mapping. *)
(***************************************************************************)
BadValueAmongSeveral(line) ==
    /\ Considered(line)
    /\ Len(ValueTokens(line)) > 1
    /\ \E j \in 1..Len(ValueTokens(line)) : ~NumbersFullmatch(ValueTokens(line)[j])

C7_BadValueRaises ==
    [][ (pc = "loop" /\ lineno <= Len(lines) /\ BadValueAmongSeveral(lines[lineno]))
          => (pc' = "raised" /\ exc'.type # "" /\ ret' = NoRet) ]_vars

C7_Witness ==
    /\ pc = "raised"
    /\ lineno = 2
    /\ content # << >>
    /\ BadValueAmongSeveral(lines[lineno])
    /\ exc.type = "ValueError"
    /\ ret = NoRet

(***************************************************************************)
(* C8  split_order_info raises 'Unexpected range variable' whenever a      *)
(* tagged key carries a range-suffix digit other than 0 or 1.              *)
(* The code files such a key as an ordinary field and returns normally.    *)
(***************************************************************************)
BadRangeSuffix(key) ==
    LET k2 == NewKey(key)
        p  == SkipWhile(k2, 1, Letter)
    IN  /\ TokenMatch(key)
        /\ p + 1 = Len(k2)
        /\ k2[p] = "_"
        /\ k2[p + 1] \in Digit \ { "0", "1" }

C8_BadSuffixRaises ==
    ( /\ pc \in { "grouped", "group_raised" }
      /\ \E n \in 1..Len(ret.d) : BadRangeSuffix(ret.d[n].k) ) =>
        /\ pc = "group_raised"
        /\ exc.type = "ValueError"
        /\ exc.text = "Unexpected range variable"

C10_NumberOrLongList ==
    pc = "returned" =>
        \A n \in 1..Len(ret.d) :
            LET v == ret.d[n].v
            IN  \/ IsNumber(v)
                \/ /\ v.t = "list"
                   /\ Len(v.items) >= 2
                   /\ \A j \in 1..Len(v.items) : IsNumber(v.items[j])

(***************************************************************************)
(* C10 (amended) every value of the returned mapping is a single number    *)
(* (one value token, numeric), or the list of the numbers of the line's    *)
(* value tokens in their order (two or more value tokens), or the empty    *)
(* list (no value token, or one value token that fails the numeric         *)
(* pattern); never a non-number or a list holding a non-number.            *)
(***************************************************************************)
C10_NumberOrListOrEmpty ==
    pc = "returned" =>
        \A n \in 1..Len(ret.d) :
            LET v    == ret.d[n].v
                toks == ValueTokens(lines[LastLine(ret.d[n].k)])
            IN  IF Len(toks) = 1 /\ NumbersFullmatch(toks[1])
                THEN IsNumber(v) /\ v = Eval(toks[1]).val
                ELSE IF Len(toks) >= 2
                THEN /\ v.t = "list"
                     /\ Len(v.items) = Len(toks)
                     /\ \A j \in 1..Len(toks) :
                            IsNumber(v.items[j]) /\ v.items[j] = Eval(toks[j]).val
                ELSE v = ListV(<< >>)

C10_Witness ==
    /\ pc = "returned"
    /\ \E n \in 1..Len(ret.d) :
           /\ ret.d[n].v = ListV(<< >>)
           /\ Len(ValueTokens(lines[LastLine(ret.d[n].k)])) = 1
    /\ \E n \in 1..Len(ret.d) : Len(ret.d[n].v.items) >= 2

(***************************************************************************)
(* Vocabulary of the converter properties                                  *)
(***************************************************************************)
\* the markers that a call looks up without a fallback in the file f
Required(c, f) ==
    LET prog == Program(c, IF c = "disperser2asdf" THEN f["*TYPE"] ELSE "")
    IN  { prog[n].m : n \in { i \in 1..Len(prog) : prog[i].op = "index" } }
          \cup (IF c = "disperser2asdf" THEN { "*TYPE" } ELSE {})

MissingRequired ==
    \E n \in 1..Len(files) : \E m \in Required(conv, files[n]) : files[n][m] = "absent"

\* the marker of the lookup at which the converter stands
LookupMarker == IF Prog[step].op = "type" THEN "*TYPE" ELSE Prog[step].m

\* the converter ended in the lookup of a marker that the file lacks
LookupFailed ==
    /\ cpc = "raised"
    /\ Prog[step].op \in { "index", "type" }
    /\ Cur[LookupMarker] = "absent"

(***************************************************************************)
(* C6  (as stated) when a required marker is absent the converter ends     *)
(* with an error that names the missing marker and the output is not       *)
(* written; nothing is written before every marker lookup has succeeded.   *)
(***************************************************************************)
C6_MissingMarkerNamed ==
    /\ out.written => ~MissingRequired
    /\ (cpc \in { "done", "raised" } /\ MissingRequired) =>
           (cpc = "raised" /\ ~out.written)
    /\ LookupFailed => (cexc.type = "ValueError" /\ cexc.marker = LookupMarker)

(***************************************************************************)
(* C6  (amended) when a required marker is absent the converter ends with  *)
(* an error and the output is not written; nothing is written before       *)
(* every marker lookup has succeeded.  The error names the missing marker, *)
(* except for '*TYPE' in disperser2asdf, which is reported as 'Unknown     *)
(* disperser type in <disfile>'.                                           *)
(***************************************************************************)
C6_MissingMarkerFatal ==
    /\ out.written => ~MissingRequired
    /\ (cpc \in { "done", "raised" } /\ MissingRequired) =>
           (cpc = "raised" /\ ~out.written)
    /\ LookupFailed =>
           /\ cexc.type = "ValueError"
           /\ IF LookupMarker = "*TYPE"
              THEN cexc.msg = "Unknown disperser type in disfile"
              ELSE cexc.marker = LookupMarker /\ cexc.msg = "is not in list"

C6_Witness ==
    /\ LookupFailed
    /\ Prog[step].op = "index"
    /\ step > 1
    /\ cexc.marker = Prog[step].m
    /\ ~out.written

(***************************************************************************)
(* Vocabulary of C11 and C12                                               *)
(***************************************************************************)
\* a considered line with exactly one value token, which is not numeric
OneBadToken(line) ==
    /\ Considered(line)
    /\ Len(ValueTokens(line)) = 1
    /\ ~NumbersFullmatch(ValueTokens(line)[1])

\* the first character of the line that is not whitespace is a letter
LetterAfterBlanks(line) ==
    LET p == SkipWhile(line, 1, Whitespace)
    IN  p <= Len(line) /\ line[p] \in Letter

\* no later line of the file would hand the same field name to the parser
LastOfItsName(n) ==
    \A i \in (n + 1)..Len(lines) :
        ~(LetterAfterBlanks(lines[i]) /\ FieldName(lines[i]) = FieldName(lines[n]))

(***************************************************************************)
(* C11 (as stated) a considered line with exactly one value token that     *)
(* fails the numeric pattern raises no error, and its field is in the      *)
(* returned mapping, holding no number.                                    *)
(***************************************************************************)
C11_SingleBadTokenRecorded ==
    /\ pc = "raised" => ~OneBadToken(lines[lineno])
    /\ pc = "returned" =>
           \A n \in 1..Len(lines) :
               (OneBadToken(lines[n]) /\ LastOfItsName(n)) =>
                   /\ DictHas(ret.d, FieldName(lines[n]))
                   /\ DictGet(ret.d, FieldName(lines[n])) = ListV(<< >>)

(***************************************************************************)
(* C11 (amended) such a line raises no error; when its field name holds    *)
(* neither FILTER nor SENS and no later line repeats the name, the field   *)
(* is in the returned mapping with the empty list as its value; when the   *)
(* name holds FILTER or SENS the field is not in the returned mapping.     *)
(***************************************************************************)
C11_SingleBadTokenRecordedUnlessDropped ==
    /\ pc = "raised" => ~OneBadToken(lines[lineno])
    /\ pc = "returned" =>
           \A n \in 1..Len(lines) :
               OneBadToken(lines[n]) =>
                   IF HasFilterOrSens(FieldName(lines[n]))
                   THEN ~DictHas(ret.d, FieldName(lines[n]))
                   ELSE LastOfItsName(n) =>
                            /\ DictHas(ret.d, FieldName(lines[n]))
                            /\ DictGet(ret.d, FieldName(lines[n])) = ListV(<< >>)

C11_Witness ==
    /\ pc = "returned"
    /\ Len(lines) = 2
    /\ OneBadToken(lines[1]) /\ ~HasFilterOrSens(FieldName(lines[1]))
    /\ OneBadToken(lines[2]) /\ HasFilterOrSens(FieldName(lines[2]))
    /\ Len(ret.d) = 1
    /\ ret.d[1] = [k |-> FieldName(lines[1]), v |-> ListV(<< >>)]

(***************************************************************************)
(* C12 (as stated) a non-blank line is considered exactly when its first   *)
(* non-whitespace character is a letter: an indented line gives the entry  *)
(* that the same line without the indentation gives.                       *)
(***************************************************************************)
C12_IndentedLineParsed ==
    pc = "returned" =>
        \A n \in 1..Len(lines) :
            ( /\ LetterAfterBlanks(lines[n])
              /\ ~HasFilterOrSens(FieldName(lines[n]))
              /\ LastOfItsName(n) ) =>
                /\ DictHas(ret.d, FieldName(lines[n]))
                /\ DictGet(ret.d, FieldName(lines[n]))
                     = StoredValue(ParseLine(Strip(lines[n])))

(***************************************************************************)
(* C12 (amended) a line is considered exactly when its very first          *)
(* character is a letter: reading a line that starts with anything else,   *)
(* whitespace included, leaves the mapping as it was and raises nothing;   *)
(* reading a line that starts with a letter raises, or drops a FILTER or   *)
(* SENS field, or leaves an entry under the field name.                    *)
(***************************************************************************)
C12_FirstCharacterDecides ==
    [][ (pc = "loop" /\ lineno <= Len(lines)) =>
            IF Len(lines[lineno]) >= 1 /\ lines[lineno][1] \in Letter
            THEN \/ pc' = "raised"
                 \/ HasFilterOrSens(FieldName(lines[lineno])) /\ content' = content
                 \/ DictHas(content', FieldName(lines[lineno]))
            ELSE content' = content /\ pc' = "loop" /\ lineno' = lineno + 1
      ]_vars

C12_Witness ==
    /\ pc = "returned"
    /\ Len(lines) = 2
    /\ LetterAfterBlanks(lines[1]) /\ lines[1][1] \in Whitespace
    /\ lines[2][1] \in Letter
    /\ FieldName(lines[1]) # FieldName(lines[2])
    /\ DictKeys(ret.d) = << FieldName(lines[2]) >>

(***************************************************************************)
(* C13  In disperser2asdf the absence of an optional marker is never an    *)
(* error: the step that looks up '*GRATINGNAME' in a file without it sets  *)
(* the grating name to 'PRISM', the step that looks up '*TILTX' in a file  *)
(* without it sets tilt_x to 0.0, both go on to the next step, and no      *)
(* error ever reports one of the two markers as missing.                   *)
(***************************************************************************)
C13_OptionalMarkersDefault ==
    [][ /\ (At("gratingname") /\ Cur["*GRATINGNAME"] = "absent") =>
               /\ loc'.grating_name = "PRISM"
               /\ cpc' = "run" /\ step' = step + 1 /\ cexc' = NoCExc
        /\ (At("tiltx") /\ Cur["*TILTX"] = "absent") =>
               /\ loc'.tilt_x = "0.0"
               /\ cpc' = "run" /\ step' = step + 1 /\ cexc' = NoCExc
        /\ cexc'.marker \notin { "*GRATINGNAME", "*TILTX" }
      ]_vars

C13_Witness ==
    /\ conv = "disperser2asdf"
    /\ cpc = "done" /\ out.written
    /\ Cur["*GRATINGNAME"] = "absent" /\ Cur["*TILTX"] = "absent"
    /\ out.tree.grating_name = "PRISM"
    /\ out.tree.tilt_x = "0.0"

(***************************************************************************)
(* Vocabulary of the driver properties                                     *)
(***************************************************************************)
IsCall(st) == st.op \in { "try", "bare" }

\* the artifacts of the conversions of the driver, in the order of the text
CallArts ==
    LET calls == SelectSeq(DriverProgram, IsCall)
    IN  [n \in 1..Len(calls) |-> calls[n].art]

Failed == dpc \in { "except", "raised" }

(***************************************************************************)
(* C14  The batch drivers attempt the conversions in one fixed order (what *)
(* has been attempted is always an initial part of the list of the         *)
(* driver's conversions), and once a conversion has raised nothing more is *)
(* attempted: the driver ends with that very error.                        *)
(***************************************************************************)
C14_FailFast ==
    [][ /\ attempted' = SubSeq(CallArts, 1, Len(attempted'))
        /\ Failed => /\ attempted' = attempted
                     /\ dexc' = dexc
                     /\ dpc' = "raised"
        /\ (~Failed /\ dexc'.type \in ConversionErrors) =>
               /\ dexc'.art = attempted'[Len(attempted')]
               /\ dpc' \in { "except", "raised" }
      ]_vars

C14_Witness ==
    /\ dpc = "raised"
    /\ dexc.type \in ConversionErrors
    /\ Len(attempted) >= 2
    /\ Len(attempted) < Len(CallArts)
    /\ dexc.art = attempted[Len(attempted)]
    /\ printed # << >>

(***************************************************************************)
(* C15  Whenever a step of a batch driver fails, a diagnostic has been     *)
(* printed by the time the error leaves the driver: no step, the           *)
(* wavelength-range conversion and the construction of the metadata        *)
(* included, ends the run without one.                                     *)
(* The call of wavelength_range stands outside any try, and so does every  *)
(* call of common_reference_file_keywords, which build5 makes with two of  *)
(* the seven required arguments.                                           *)
(***************************************************************************)
C15_EveryFailureDiagnosed ==
    dpc = "raised" => printed # << >>

(***************************************************************************)
(* Vocabulary of C16                                                       *)
(***************************************************************************)
\* the converters that read the forward and the backward coefficient blocks
BothDirections == { "pcf_forward", "pcf2asdf", "fore2asdf", "ote2asdf", "ifupost2asdf" }

\* two coefficient blocks of the same axis and of opposite directions
Opposite(b1, b2) == { b1, b2 } \in { { xFwd, xBwd }, { yFwd, yBwd } }

\* the surface that a composed model uses has a declared inverse, which was
\* built from the block of the opposite direction
Linked(mo, name) ==
    /\ mo.surfaces[name].inverse \in PolyNames
    /\ Opposite(mo.surfaces[name].block,
                mo.surfaces[mo.surfaces[name].inverse].block)

(***************************************************************************)
(* C16  in the model written by a converter that reads both the forward    *)
(* and the backward coefficient blocks, each polynomial used in the        *)
(* forward direction has the polynomial built from the opposite-direction  *)
(* block as its declared inverse.                                          *)
(***************************************************************************)
C16_SurfacesLinked ==
    (conv \in BothDirections /\ out.written) =>
        \A i \in 1..Len(out.model) :
            Linked(out.model[i], out.model[i].x) /\ Linked(out.model[i], out.model[i].y)

(***************************************************************************)
(* C20  When a converter terminates, by returning or with an error, no     *)
(* input file that it opened is still open; in particular msa2asdf and     *)
(* ifu_slicer2asdf do not leave the FITS file open when an extension or a  *)
(* header keyword is missing.                                              *)
(* The two FITS converters call f.close() as a plain statement after the   *)
(* last lookup, with no try/finally and no with block around the lookups.  *)
(***************************************************************************)
C20_InputsReleased ==
    cpc \in { "done", "raised" } => opened = {}

(***************************************************************************)
(* C17  For NRS1 and for NRS2, the transform that fpa2asdf declares as the *)
(* inverse of the detector-to-sky transform is its algebraic inverse:      *)
(* a coordinate sent through det2sky and then through the declared         *)
(* sky2det comes back unchanged, for every rotation angle, pair of pitches *)
(* and position.                                                           *)
(* The affine matrix of sky2det is R(-angle).S^-1 for NRS1 and             *)
(* R(-angle).(-S^-1) for NRS2, where the inverse of R(-angle).S is         *)
(* S^-1.R(angle) and that of R(angle).(-S) is (-S^-1).R(-angle).           *)
(***************************************************************************)
C17_DeclaredInverseExact ==
    fpc = "back" => probe.back = probe.xy

(***************************************************************************)
(* Vocabulary of C19                                                       *)
(***************************************************************************)
\* the keys of the input mapping that are merged into a range pair
MergedKeys(keydict) ==
    { keydict[n].k : n \in { i \in 1..Len(keydict) :
          TokenMatch(keydict[i].k) /\ RangekeyMatch(NewKey(keydict[i].k)) } }

\* split_order_info is called and returns
Grouping == pc = "returned" /\ pc' = "grouped"

(***************************************************************************)
(* C19  (as stated) split_order_info mutates its input mapping in place:   *)
(* after it returns, the keys of the input mapping that were merged into   *)
(* range pairs have been removed from the input mapping.                   *)
(***************************************************************************)
C19_InputMutated ==
    [][ (Grouping /\ MergedKeys(ret.d) # {}) =>
            \A k \in MergedKeys(ret.d) : ~DictHas(ret'.d, k)
      ]_vars

(***************************************************************************)
(* C19  (amended) split_order_info leaves its input mapping as it was:     *)
(* the merged keys are deleted from the per-tag mappings of the returned   *)
(* dictionary, which are new dictionaries, and they stay in the input.     *)
(***************************************************************************)
C19_InputLeftAlone ==
    [][ Grouping =>
            /\ ret' = ret
            /\ \A n \in 1..Len(rdict') : \A m \in 1..Len(rdict'[n].v) :
                   ~RangekeyMatch(rdict'[n].v[m].k)
      ]_vars

C19_Witness ==
    /\ pc = "grouped"
    /\ MergedKeys(ret.d) # {}
    /\ \A k \in MergedKeys(ret.d) : DictHas(ret.d, k)
    /\ \E n \in 1..Len(rdict) : DictHas(rdict[n].v, << "D","I","S","P","X" >>)

(***************************************************************************)
(* Vocabulary of C18                                                       *)
(***************************************************************************)
\* the order tags found by split_order_info
TagsFound == { rdict[n].k : n \in 1..Len(rdict) }

\* the tags of a set in ascending lexicographic order
Ascending(S) ==
    CHOOSE sq \in [1..Cardinality(S) -> S] :
        \A i \in 1..Cardinality(S) : \A j \in (i + 1)..Cardinality(S) : StrLess(sq[i], sq[j])

\* the i-th entry of every written list was made from the fields of tag t
BelongsTo(i, t) ==
    /\ ref.orders[i] = DictGet(beam_lookup, t)
    /\ ref.displ[i] = Wavelengths(DictGet(DictGet(rdict, t), kDISPL)).displ
    /\ ref.invdispl[i] = Wavelengths(DictGet(DictGet(rdict, t), kDISPL)).invdispl
    /\ ref.dispx[i] = ModelPair(DictGet(DictGet(rdict, t), kDISPX), kDISPX).pair
    /\ ref.dispy[i] = ModelPair(DictGet(DictGet(rdict, t), kDISPY), kDISPY).pair

(***************************************************************************)
(* C18  In the reference file written by create_grism_config, the lists    *)
(* orders, dispx, dispy, displ and invdispl each have one entry per order  *)
(* tag found by split_order_info, and the i-th entry of every list belongs *)
(* to the i-th tag in ascending lexicographic order, whatever the order of *)
(* the tags in the configuration file.                                     *)
(***************************************************************************)
C18_ListsFollowSortedTags ==
    ref.written =>
        /\ Len(ref.orders) = Cardinality(TagsFound)
        /\ Len(ref.dispx) = Cardinality(TagsFound)
        /\ Len(ref.dispy) = Cardinality(TagsFound)
        /\ Len(ref.displ) = Cardinality(TagsFound)
        /\ Len(ref.invdispl) = Cardinality(TagsFound)
        /\ \A i \in 1..Cardinality(TagsFound) : BelongsTo(i, Ascending(TagsFound)[i])

\* a file that names tag B before tag A was written with A first
C18_Witness ==
    /\ ref.written
    /\ DictKeys(rdict) = << << "B" >>, << "A" >> >>
    /\ ref.orders = << 1, 0 >>
    /\ ref.displ[1].c0 = NumV("float", 1, 0)
    /\ ref.displ[2].c0 = NumV("float", 2, 0)
    /\ ref.dispx[2][1].c0_0 = DictGet(ret.d, kDISPX \o << "_", "B", "_", "0" >>).items[1]

(***************************************************************************)
(* C25  Whenever the disperser type of the .dis file is not gratingdata or *)
(* prismdata, '*TYPE' missing or followed by another name, disperser2asdf  *)
(* ends with the error 'Unknown disperser type' and writes no output.      *)
(* Only the missing marker is turned into that error; after another name   *)
(* neither branch binds d, and d.update(ref_kw) fails on the unbound name. *)
(***************************************************************************)
C25_UnknownTypeReported ==
    (/\ conv = "disperser2asdf"
     /\ cpc \in { "done", "raised" }
     /\ Cur["disfile"] # "bad"
     /\ Cur["*TYPE"] \notin Sound("*TYPE")) =>
        /\ cpc = "raised"
        /\ ~out.written
        /\ cexc.type = "ValueError"
        /\ cexc.msg = "Unknown disperser type in disfile"

(***************************************************************************)
(* C26  In the tree written by disperser2asdf, 'gwa_tiltx' holds the tilt  *)
(* description read from tiltxfile and 'gwa_tilty' the one read from       *)
(* tiltyfile.                                                              *)
(* The two assignments are crossed: d['gwa_tiltx'] = tiltyd and            *)
(* d['gwa_tilty'] = tiltxd.                                                *)
(***************************************************************************)
C26_TiltsUnderTheirNames ==
    (conv = "disperser2asdf" /\ out.written) =>
        /\ out.tree.gwa_tiltx = "tiltxfile"
        /\ out.tree.gwa_tilty = "tiltyfile"

(***************************************************************************)
(* C27  The default 0.0 for tilt_x is used only when '*TILTX' is absent:   *)
(* with the marker present tilt_x is the number of the next line, and if   *)
(* that line is not a number the conversion ends with an error.            *)
(* float(...) stands inside the same try as the lookup, and the handler    *)
(* catches the ValueError of both.                                         *)
(***************************************************************************)
C27_DefaultOnlyWhenAbsent ==
    [][ At("tiltx") =>
            /\ Cur["*TILTX"] = "absent" => loc'.tilt_x = "0.0"
            /\ Cur["*TILTX"] = "ok" => loc'.tilt_x = "from file"
            /\ Cur["*TILTX"] = "bad" => (cpc' = "raised" /\ loc'.tilt_x # "0.0")
      ]_vars

(***************************************************************************)
(* Vocabulary of C30                                                       *)
(***************************************************************************)
NumericAlphabet == Digit \cup SignChar \cup ExpChar \cup { "." }

(***************************************************************************)
(* C30  Every string handed to eval by dict_from_file or split_order_info  *)
(* is made only of digits, '+', '-', '.', 'e' and 'E': no token with any   *)
(* other character of the file or of a key is evaluated.                   *)
(***************************************************************************)
C30_OnlyNumericEvaluated ==
    \A n \in 1..Len(evald) : \A i \in 1..Len(evald[n]) : evald[n][i] \in NumericAlphabet

\* a value and the suffix of a range key were evaluated, and the file has a
\* line whose only token is not numeric
C30_Witness ==
    /\ pc \in { "grouped", "group_raised" }
    /\ \E n \in 1..Len(lines) : OneBadToken(lines[n])
    /\ Len(evald) >= 2
    /\ evald[1] = << "5", ".", "0" >>
    /\ evald[Len(evald)] = << "0" >>

(***************************************************************************)
(* Vocabulary of C22, C23 and C24                                          *)
(***************************************************************************)
Words == { << "D","I","S","P" >>, << "D","I","S","P","X" >>, << "X","O","F","F" >> }

UpperTags == { "A", "B" }

\* the key W_t_n
RangeKey(W, t, n) == W \o << "_", t, "_", n >>

\* the range key W_n of a per-tag dictionary
Suffixed(W, n) == W \o << "_", n >>

\* the key without the '_<tag>' segment that follows its leading letters
NameOf(key) ==
    SubSeq(key, 1, SkipWhile(key, 1, Letter) - 1)
      \o SubSeq(key, SkipWhile(key, 1, Letter) + 2, Len(key))

TagOf(key) == << Upper(key[SkipWhile(key, 1, Letter) + 1]) >>

\* the value v of a key is found in the result under tag and name, as it is
\* or as a component of the pair made for its range
Filed(tag, name, v) ==
    /\ DictHas(rdict, tag)
    /\ \/ /\ DictHas(DictGet(rdict, tag), name)
          /\ DictGet(DictGet(rdict, tag), name) = v
       \/ /\ RangekeyMatch(name)
          /\ \E n \in 1..Len(DictGet(rdict, tag)) :
                 /\ DictGet(rdict, tag)[n].v.t = "tuple"
                 /\ Suffixed(DictGet(rdict, tag)[n].k, name[Len(name)]) = name
                 /\ v \in { DictGet(rdict, tag)[n].v.items[1],
                            DictGet(rdict, tag)[n].v.items[2] }

\* no two tagged keys of the input are meant for the same tag and name
NamesApart ==
    \A i, j \in 1..Len(ret.d) :
        (/\ i # j
         /\ TokenMatch(ret.d[i].k) /\ TokenMatch(ret.d[j].k)
         /\ TagOf(ret.d[i].k) = TagOf(ret.d[j].k)) =>
            NameOf(ret.d[i].k) # NameOf(ret.d[j].k)

\* the pair filed under name k of tag t is made of the values of the input
\* keys that became k_0 and k_1 under that tag
OwnPair(t, k, v) ==
    \E i, j \in 1..Len(ret.d) :
        /\ TokenMatch(ret.d[i].k) /\ TokenMatch(ret.d[j].k)
        /\ BeamOf(ret.d[i].k) = t /\ BeamOf(ret.d[j].k) = t
        /\ NewKey(ret.d[i].k) = Suffixed(k, "0")
        /\ NewKey(ret.d[j].k) = Suffixed(k, "1")
        /\ v.items = << ret.d[i].v, ret.d[j].v >>

(***************************************************************************)
(* C22  For every tag t and base word W with both W_t_0 and W_t_1 in the   *)
(* input, the result has result[t][W] = (input[W_t_0], input[W_t_1]) and   *)
(* result[t] has neither W_0 nor W_1, for any number of base words under   *)
(* the tag, in any insertion order, also when one word is part of another. *)
(* The keys of a range are collected by substring: k.split("_")[0] in m.   *)
(***************************************************************************)
C22_RangesMergedPerWord ==
    pc = "grouped" =>
        \A W \in Words : \A t \in UpperTags :
            (DictHas(ret.d, RangeKey(W, t, "0")) /\ DictHas(ret.d, RangeKey(W, t, "1"))) =>
                /\ DictHas(rdict, << t >>)
                /\ DictHas(DictGet(rdict, << t >>), W)
                /\ DictGet(DictGet(rdict, << t >>), W) =
                       TupleV(DictGet(ret.d, RangeKey(W, t, "0")),
                              DictGet(ret.d, RangeKey(W, t, "1")))
                /\ ~DictHas(DictGet(rdict, << t >>), Suffixed(W, "0"))
                /\ ~DictHas(DictGet(rdict, << t >>), Suffixed(W, "1"))

(***************************************************************************)
(* C23  The value of every input key that matches the tagged-key pattern   *)
(* is filed under result[TAG][NAME], TAG the upper-cased tag character and *)
(* NAME the key without its one '_<tag>' segment, also for a lower-case    *)
(* tag and for a key in which '_<tag>' occurs again.                       *)
(* The segment is removed by key.replace("_" + TAG, ""): every occurrence  *)
(* of the upper-cased text, and none of the lower-cased one.               *)
(***************************************************************************)
C23_FiledUnderTagAndName ==
    (pc = "grouped" /\ NamesApart) =>
        \A n \in 1..Len(ret.d) :
            TokenMatch(ret.d[n].k) =>
                Filed(TagOf(ret.d[n].k), NameOf(ret.d[n].k), ret.d[n].v)

(***************************************************************************)
(* C24  Every two-tuple of the result has as first component the input     *)
(* value of its word's own _0 key and as second that of its own _1 key:    *)
(* a word with only one of the two never gets a value of another word or   *)
(* tag, the call fails instead.                                            *)
(* zero and one are locals of the whole function and keep the value of an  *)
(* earlier word or tag.                                                    *)
(***************************************************************************)
C24_PairsOfOwnValues ==
    pc = "grouped" =>
        \A t \in 1..Len(rdict) : \A n \in 1..Len(rdict[t].v) :
            rdict[t].v[n].v.t = "tuple" =>
                OwnPair(rdict[t].k, rdict[t].v[n].k, rdict[t].v[n].v)

(***************************************************************************)
(* C28  The output file is written only after the model has been           *)
(* validated, and a run whose validation fails leaves no output file.      *)
(* create_grism_config calls ref.to_asdf(outname) and then ref.validate(), *)
(* and so does create_grism_waverange.                                     *)
(***************************************************************************)
C28_ValidatedBeforeWritten ==
    /\ ref.written => gpc = "validated"
    /\ (gpc = "raised" /\ gexc.type = "ValidationError") => ~ref.written

(***************************************************************************)
(* Vocabulary of C21 and C29                                               *)
(***************************************************************************)
RequiredKeys ==
    { "author", "description", "reftype", "pedigree", "telescope", "title",
      "useafter", "filename" }

KeywordsReturned == fn \in { "niriss", "nirspec" } /\ res.done /\ res.exc = NoExc

UnderInstrument(name) ==
    /\ DictHas(res.d, "instrument")
    /\ DictHas(DictGet(res.d, "instrument").items, name)

\* filter and pupil are under 'instrument' exactly when they were supplied
FilterAndPupilAsSupplied ==
    /\ UnderInstrument("filter") <=> args.filtername # NoneV
    /\ UnderInstrument("pupil") <=> args.pupil # NoneV

\* the number of pairs that come before (i, j), i ascending and then j
Rank(d, i, j) ==
    Cardinality({ q \in (0..d) \X (0..d) :
                    /\ q[1] + q[2] <= d
                    /\ q[1] < i \/ (q[1] = i /\ q[2] < j) })

(***************************************************************************)
(* C21 as stated: every returned mapping has the keys author, description, *)
(* reftype, pedigree, telescope, title, useafter and filename whatever the *)
(* extra keyword arguments, and the NIRISS mapping has filter and pupil    *)
(* under 'instrument' exactly when a non-None value was supplied.          *)
(* update(kwargs) replaces the whole 'instrument' entry when an extra      *)
(* keyword argument has that name.                                         *)
(***************************************************************************)
C21_FilterPupilWhateverKwargs ==
    KeywordsReturned =>
        /\ \A k \in RequiredKeys : DictHas(res.d, k)
        /\ fn = "niriss" => FilterAndPupilAsSupplied

(***************************************************************************)
(* C21  Every returned mapping has the keys author, description, reftype,  *)
(* pedigree, telescope, title, useafter and filename whatever the extra    *)
(* keyword arguments; the NIRISS mapping has filter and pupil under        *)
(* 'instrument' exactly when a non-None value was supplied, provided that  *)
(* no extra keyword argument is named instrument.                          *)
(***************************************************************************)
C21_RequiredKeysPresent ==
    KeywordsReturned =>
        /\ \A k \in RequiredKeys : DictHas(res.d, k)
        /\ (fn = "niriss" /\ ~DictHas(args.kwargs, "instrument")) => FilterAndPupilAsSupplied

C21_Witness ==
    /\ fn = "niriss" /\ res.done /\ res.exc = NoExc
    /\ DictKeys(args.kwargs) = << "subarray", "pedigree" >>
    /\ args.filtername # NoneV /\ args.pupil = NoneV
    /\ UnderInstrument("filter") /\ ~UnderInstrument("pupil")
    /\ DictGet(res.d, "pedigree") = StrV("DUMMY")

(***************************************************************************)
(* C29  For a degree d >= 0 and a list with at least (d+1)(d+2)/2 entries, *)
(* coeffs_from_pcf returns exactly (d+1)(d+2)/2 entries, one named         *)
(* c{i}_{j} for each pair i, j >= 0 with i + j <= d, whose value is the    *)
(* number read from the k-th list entry (k from 0), (i, j) being the k-th  *)
(* pair in the order i ascending, then j ascending; the entries after      *)
(* that count are ignored.                                                 *)
(***************************************************************************)
C29_CoefficientsInPairOrder ==
    (/\ fn = "coeffs_from_pcf" /\ res.done
     /\ Len(args.coeffslist) >= PairCount(args.degree)) =>
        /\ res.exc = NoExc
        /\ Len(res.d) = PairCount(args.degree)
        /\ \A i, j \in 0..args.degree :
               i + j <= args.degree =>
                   /\ DictHas(res.d, CoeffName(i, j))
                   /\ DictGet(res.d, CoeffName(i, j)) =
                          Float(args.coeffslist[Rank(args.degree, i, j) + 1]).val

C29_Witness ==
    /\ fn = "coeffs_from_pcf" /\ res.done /\ res.exc = NoExc
    /\ args.degree = 2
    /\ Len(args.coeffslist) = PairCount(2) + 1
    /\ args.coeffslist[PairCount(2) + 1] = NotANumber
    /\ args.coeffslist[2] # args.coeffslist[4]
    /\ DictGet(res.d, CoeffName(0, 1)) = NumV("float", 3, 0)
    /\ DictGet(res.d, CoeffName(1, 0)) = NumV("float", -25, 0)
    /\ Len(res.d) = 6
====
